---------------------------- MODULE Spec2Model ----------------------------
(***************************************************************************)
(* A model of the homiletic_xray data pipeline:                            *)
(*   src/02__json_to_tsv_converter.py   (TSV converter)                    *)
(*   src/02b__check_complete_cases.py   (completeness checker)             *)
(*   src/precompute_statistics.py       (statistics aggregator)            *)
(*   src/violin_data_precompute.py      (distribution aggregator)          *)
(*                                                                         *)
(* Text whose characters matter (filenames, JSON string values, cells) is  *)
(* a sequence of one-character strings.  Dictionary keys and the fixed     *)
(* parts of column names are atomic strings.                               *)
(***************************************************************************)
EXTENDS Integers, Sequences, FiniteSets, TLC

VARIABLES
    phase,           \* which program runs and how far it got
    filename,        \* the file of the docs directory being handled
    content,         \* what reading and json.load of that file gives
    sermons,         \* load_all_sermons: (theologian, sermon_id) -> type -> record
    processed,       \* load_all_sermons: counter
    skipped,         \* load_all_sermons: counter
    conv_state,      \* the converter's handling of the file: todo, done, raised
    conv_parsed,     \* load_all_sermons: its local variable parsed
    existing_files,  \* check_complete_cases: (theologian, sermon_id) -> set of types
    chk_done,        \* the checker has handled the file
    chk_parsed,      \* check_complete_cases: its local variable parsed
    value,           \* serialize_value: its argument
    cell,            \* serialize_value: what it returned
    ser_done,        \* serialize_value has returned
    payload,         \* extract_analysis_data: its argument data
    cur_type,        \* extract_analysis_data: its argument analysis_type
    puts,            \* the number of fields put into data
    last_slot,       \* the last field put into data
    extracted,       \* what extract_analysis_data returned or raised
    sermon,          \* create_tsv: the sermon_key of the row being built
    row,             \* create_tsv: the row being built
    written,         \* for each column of row, the types that assigned it
    analyses_done,   \* create_tsv: the types of the sermon already merged into row
    tsv_sermons,     \* create_tsv: its argument sermons, in dict order
    all_columns,     \* create_tsv: the set of column names of the first pass
    header,          \* create_tsv: the header written
    rows,            \* create_tsv: the data rows written, in order
    tsv_pc,          \* create_tsv: collect, header, rows, done or raised
    tsv_seen,        \* create_tsv: the sermons the first pass has been through
    sc_module,       \* aggregate_scores: the module it is of, stats or violin
    sc_detailed,     \* aggregate_scores: its argument detailed
    sc_series,       \* aggregate_scores: (metric_key, theologian) -> list of scores
    sc_count,        \* aggregate_scores: the items of all_data gone through
    sc_pc,           \* aggregate_scores: run, done or raised
    sc_item,         \* aggregate_scores: the item of the last turn of its loop
    sc_scores,       \* aggregate_scores: what extract_scores returned for it
    sc_result,       \* aggregate_scores: what it returned
    st_values,       \* calculate_stats, calculate_violin_data: the argument values
    st_stats,        \* what calculate_stats returned
    st_violin,       \* what calculate_violin_data returned
    stat_data,       \* precompute_statistics.load_all_data: its list all_data
    stat_pc,         \* precompute_statistics.load_all_data: todo or done
    violin_data,     \* violin_data_precompute.load_all_data: its list all_data
    violin_pc,       \* violin_data_precompute.load_all_data: todo, done or raised
    problems,        \* check_complete_cases: its list problems
    chk_checked,     \* check_complete_cases: its second loop has run
    summary,         \* print_summary: what it printed
    docs,            \* the docs directory: whether it exists, and its files
    todo,            \* load_all_sermons: the files its loop has not taken yet
    run_pc,          \* the program of the pipeline that runs next
    run_no,          \* the run of the pipeline: the first or the second
    clock,           \* the time, as datetime.now() reads it
    ended,           \* how each program of this run ended
    stat_out,        \* statistics.json as this run wrote it
    violin_out,      \* violin_data.json as this run wrote it
    first_run        \* what the first run of the pipeline wrote

fileVars == <<filename, content, sermons, processed,
              skipped, conv_state, conv_parsed, existing_files, chk_done, chk_parsed>>

serVars == <<value, cell, ser_done>>

extVars == <<payload, cur_type, puts, last_slot, extracted, sermon, row, written,
            analyses_done>>

tsvVars == <<tsv_sermons, all_columns, header, rows, tsv_pc, tsv_seen>>

\* the variables of the parts of the pipeline further down
scoreVars == <<sc_module, sc_detailed, sc_series, sc_count, sc_pc, sc_item, sc_scores,
               sc_result>>
statVars == <<st_values, st_stats, st_violin>>
loadVars == <<stat_data, stat_pc, violin_data, violin_pc, problems, chk_checked>>
\* the variables of the programs run as wholes
runVars == <<summary, docs, todo, run_pc, run_no, clock, ended, stat_out, violin_out,
             first_run>>

laterVars == <<tsvVars, scoreVars, statVars, loadVars, runVars>>

\* the variables create_tsv does not touch
tsvOthers == <<scoreVars, statVars, loadVars, runVars>>

\* the variables aggregate_scores does not touch
scoreOthers == <<statVars, loadVars, runVars>>

vars == <<phase, fileVars, serVars, extVars, laterVars>>

\* create_tsv not called
TsvIdle ==
    /\ tsv_sermons = <<>>
    /\ all_columns = {}
    /\ header = <<>>
    /\ rows = <<>>
    /\ tsv_pc = "idle"
    /\ tsv_seen = 0

\* aggregate_scores not called
ScoreIdle ==
    /\ sc_module = "stats"
    /\ sc_detailed = FALSE
    /\ sc_series = <<>>
    /\ sc_count = 0
    /\ sc_pc = "idle"
    /\ sc_item = <<>>
    /\ sc_scores = <<>>
    /\ sc_result = <<>>

\* no series handed to calculate_stats or calculate_violin_data
StatIdle ==
    /\ st_values = <<>>
    /\ st_stats = [k |-> "none"]
    /\ st_violin = [k |-> "none"]

\* load_all_data of the aggregators and the checker's second loop not run
LoadIdle ==
    /\ stat_data = <<>>
    /\ stat_pc = "idle"
    /\ violin_data = <<>>
    /\ violin_pc = "idle"
    /\ problems = <<>>
    /\ chk_checked = FALSE

\* no program run as a whole
RunIdle ==
    /\ summary = [k |-> "none"]
    /\ docs = [exists |-> FALSE, files |-> <<>>]
    /\ todo = <<>>
    /\ run_pc = "idle"
    /\ run_no = 0
    /\ clock = 0
    /\ ended = <<>>
    /\ stat_out = [k |-> "none"]
    /\ violin_out = [k |-> "none"]
    /\ first_run = [k |-> "none"]

LaterIdle == TsvIdle /\ ScoreIdle /\ StatIdle /\ LoadIdle /\ RunIdle

---------------------------------------------------------------------------
(* Bounds of the model *)

\* the most name pieces joined by "_" into one file name
MaxPieces == 4

\* the longest string handed to serialize_value on its own
MaxStrLen == 3

\* the longest string inside a list or dict handed to serialize_value
MaxItemLen == 1

\* the most fields put into the JSON object handed to extract_analysis_data
MaxPuts == 5

\* the most analyses of one sermon merged into its row
MaxAnalyses == 2

---------------------------------------------------------------------------
(* Python's str operations, on sequences of characters *)

Min(S) == CHOOSE x \in S : \A y \in S : x <= y

Max(S) == CHOOSE x \in S : \A y \in S : x >= y

\* F(x), with x computed once
Bind(x, F(_)) == CHOOSE y \in {F(v) : v \in {x}} : TRUE

Range(f) == {f[i] : i \in DOMAIN f}

\* s.endswith(suf)
EndsWith(s, suf) ==
    /\ Len(s) >= Len(suf)
    /\ SubSeq(s, Len(s) - Len(suf) + 1, Len(s)) = suf

\* pat in s
Contains(s, pat) ==
    \E i \in 1..(Len(s) - Len(pat) + 1) : SubSeq(s, i, i + Len(pat) - 1) = pat

\* s.replace(old, new): every non-overlapping occurrence, left to right
RECURSIVE Replace(_, _, _)
Replace(s, old, new) ==
    IF Len(s) < Len(old) THEN s
    ELSE IF SubSeq(s, 1, Len(old)) = old
         THEN new \o Replace(SubSeq(s, Len(old) + 1, Len(s)), old, new)
         ELSE <<Head(s)>> \o Replace(Tail(s), old, new)

\* s.split(d) for a one-character delimiter d: empty pieces are kept
RECURSIVE Split(_, _)
Split(s, d) ==
    LET at == {i \in 1..Len(s) : s[i] = d}
    IN  IF at = {} THEN <<s>>
        ELSE <<SubSeq(s, 1, Min(at) - 1)>> \o Split(SubSeq(s, Min(at) + 1, Len(s)), d)

\* sep.join(parts)
RECURSIVE Join(_, _)
Join(parts, sep) ==
    IF parts = <<>> THEN <<>>
    ELSE IF Len(parts) = 1 THEN parts[1]
    ELSE parts[1] \o sep \o Join(Tail(parts), sep)

\* parts[i:j] with Python's 0-based, end-clamped slice
Slice(parts, i, j) ==
    SubSeq(parts, i + 1, IF j < Len(parts) THEN j ELSE Len(parts))

---------------------------------------------------------------------------
(* Names of the programs *)

US == <<"_">>

DOT_JSON == <<".","j","s","o","n">>

aristoteles     == <<"a","r","i","s","t","o","t","e","l","e","s">>
dekker          == <<"d","e","k","k","e","r">>
kolb            == <<"k","o","l","b">>
schulz_von_thun == <<"s","c","h","u","l","z","_","v","o","n","_","t","h","u","n">>
esthetiek       == <<"e","s","t","h","e","t","i","e","k">>
transactional   == <<"t","r","a","n","s","a","c","t","i","o","n","a","l">>
metaphor        == <<"m","e","t","a","p","h","o","r">>
speech_act      == <<"s","p","e","e","c","h","_","a","c","t">>
narrative       == <<"n","a","r","r","a","t","i","v","e">>

\* the declared domain vocabulary, in declared order
ANALYSIS_TYPES ==
    <<aristoteles, dekker, kolb, schulz_von_thun, esthetiek, transactional,
      metaphor, speech_act, narrative>>

\* the auxiliary-file fragments
skip_patterns ==
    << <<"s","t","a","t","i","s","t","i","c","s">>,
       <<"v","i","o","l","i","n","_","d","a","t","a">>,
       <<"f","i","l","e","_","i","n","d","e","x">>,
       <<".","r","a","w">> >>

\* the repeat-run marker
B_MARKER == <<"_","B","_">>

---------------------------------------------------------------------------
(* parse_filename *)

\* the not-parseable signal
None == <<>>

\* a raised exception, as a result
Raise(what) == << <<what>> >>

IsTriple(r) == Len(r) = 3

\* parts[i] (0-based): IndexError beyond the end
Item(parts, i) == IF i < Len(parts) THEN <<parts[i + 1]>> ELSE <<>>

\* a slip: only the first token of the type is compared
MatchesAt_first_token(parts, i, analysis_type) ==
    Join(Slice(parts, i, i + 1), US) = Head(Split(analysis_type, "_"))

\* the inner test: '_'.join(parts[i:i + len(analysis_parts)]) == analysis_type
MatchesAt(parts, i, analysis_type) ==
    Join(Slice(parts, i, i + Len(Split(analysis_type, "_"))), US) = analysis_type

NoIdx == 0 - 1

\* the two nested loops: the first i in range(1, len(parts)) at which some
\* declared type matches, or NoIdx (analysis_start_idx is None)
analysis_start_idx(parts, types) ==
    LET hits == {i \in 1..(Len(parts) - 1) :
                    \E k \in 1..Len(types) : MatchesAt(parts, i, types[k])}
    IN  IF hits = {} THEN NoIdx ELSE Min(hits)

\* a slip: the fallback takes one token as the analysis type and drops the
\* tokens after it
parse_parts_one_token(parts, types) ==
    IF Len(parts) < 3 THEN None
    ELSE LET idx == analysis_start_idx(parts, types)
         IN  IF idx = NoIdx \/ idx < 2
             THEN <<Head(parts), parts[2], parts[3]>>
             ELSE <<Head(parts), Join(Slice(parts, 1, idx), US),
                    Join(Slice(parts, idx, Len(parts)), US)>>

\* a slip: the fallback taken below index 1 instead of below index 2
parse_parts_off_by_one(parts, types) ==
    IF Len(parts) < 3 THEN None
    ELSE LET idx == analysis_start_idx(parts, types)
         IN  IF idx = NoIdx \/ idx < 1
             THEN <<Head(parts), parts[2], Join(Slice(parts, 2, Len(parts)), US)>>
             ELSE <<Head(parts), Join(Slice(parts, 1, idx), US),
                    Join(Slice(parts, idx, Len(parts)), US)>>

\* the tail of parse_filename, from "if len(parts) < 3" on; theologian is
\* parts[0], which str.split always gives
parse_parts(parts, types) ==
    IF Len(parts) < 3 THEN None
    ELSE LET idx == analysis_start_idx(parts, types)
             p1  == Item(parts, 1)
         IN  IF idx = NoIdx \/ idx < 2
             THEN IF p1 = <<>> THEN Raise("IndexError")
                  ELSE <<Head(parts), p1[1], Join(Slice(parts, 2, Len(parts)), US)>>
             ELSE <<Head(parts), Join(Slice(parts, 1, idx), US),
                    Join(Slice(parts, idx, Len(parts)), US)>>

\* a slip: the auxiliary-file fragments are not looked for
parse_filename_no_skip(fn) ==
    IF ~EndsWith(fn, DOT_JSON) THEN None
    ELSE IF Contains(fn, B_MARKER) THEN None
    ELSE parse_parts(Split(Replace(fn, DOT_JSON, <<>>), "_"), ANALYSIS_TYPES)

\* the converter's parse_filename
parse_filename(fn) ==
    IF ~EndsWith(fn, DOT_JSON) THEN None
    ELSE IF \E p \in Range(skip_patterns) : Contains(fn, p) THEN None
    ELSE IF Contains(fn, B_MARKER) THEN None
    ELSE parse_parts(Split(Replace(fn, DOT_JSON, <<>>), "_"), ANALYSIS_TYPES)

\* a slip: the checker given the converter's repeat-run rule
chk_parse_filename_with_B_rule(fn) ==
    IF ~EndsWith(fn, DOT_JSON) THEN None
    ELSE IF \E p \in Range(skip_patterns) : Contains(fn, p) THEN None
    ELSE IF Contains(fn, B_MARKER) THEN None
    ELSE parse_parts(Split(Replace(fn, DOT_JSON, <<>>), "_"), ANALYSIS_TYPES)

\* the checker's parse_filename: the same without the repeat-run rule
chk_parse_filename(fn) ==
    IF ~EndsWith(fn, DOT_JSON) THEN None
    ELSE IF \E p \in Range(skip_patterns) : Contains(fn, p) THEN None
    ELSE parse_parts(Split(Replace(fn, DOT_JSON, <<>>), "_"), ANALYSIS_TYPES)

---------------------------------------------------------------------------
(* JSON values, as json.load gives them *)

JNull         == [t |-> "null"]
JBool(b)      == [t |-> "bool", b |-> b]
JInt(n)       == [t |-> "int", n |-> n]
\* a float, as the fraction num / den with den > 0
JFloat(n, d)  == [t |-> "float", num |-> n, den |-> d]
JStr(s)       == [t |-> "str", s |-> s]
JList(l)      == [t |-> "list", l |-> l]
\* a dict: its <<key, value>> pairs in insertion order, keys distinct
JDict(o)      == [t |-> "dict", o |-> o]

EmptyDict == JDict(<<>>)

IsDict(v) == v.t = "dict"
IsList(v) == v.t = "list"

---------------------------------------------------------------------------
(* str() of numbers and json.dumps *)

NL == "\n"
CR == "\r"
SP == " "

DigitChar(d) == <<"0","1","2","3","4","5","6","7","8","9">>[d + 1]

RECURSIVE Digits(_)
Digits(n) == IF n < 10 THEN <<DigitChar(n)>>
             ELSE Digits(n \div 10) \o <<DigitChar(n % 10)>>

\* str(n) of an int
IntStr(n) == IF n < 0 THEN <<"-">> \o Digits(0 - n) ELSE Digits(n)

\* repr of a float with one decimal digit (den divides 10), such as 7.5 or
\* 7.0: the only floats the model hands to str() and json.dumps
FloatStr(f) ==
    LET tenths == (f.num * 10) \div f.den
        mag    == IF tenths < 0 THEN 0 - tenths ELSE tenths
    IN  (IF tenths < 0 THEN <<"-">> ELSE <<>>)
        \o Digits(mag \div 10) \o <<".">> \o <<DigitChar(mag % 10)>>

\* json's escaping of one character of a string (ensure_ascii=False)
EscapeChar(c) ==
    IF c = "\"" THEN <<"\\", "\"">>
    ELSE IF c = "\\" THEN <<"\\", "\\">>
    ELSE IF c = NL THEN <<"\\", "n">>
    ELSE IF c = CR THEN <<"\\", "r">>
    ELSE IF c = "\t" THEN <<"\\", "t">>
    ELSE <<c>>

RECURSIVE EscapeStr(_)
EscapeStr(s) == IF s = <<>> THEN <<>> ELSE EscapeChar(Head(s)) \o EscapeStr(Tail(s))

\* json.dumps(v, ensure_ascii=False): separators ", " and ": "; a dict key,
\* an atomic string of the model, is one element of the text
RECURSIVE JsonDumps(_)
RECURSIVE DumpItems(_)
RECURSIVE DumpPairs(_)
JsonDumps(v) ==
    CASE v.t = "null"  -> <<"n","u","l","l">>
      [] v.t = "bool"  -> IF v.b THEN <<"t","r","u","e">> ELSE <<"f","a","l","s","e">>
      [] v.t = "int"   -> IntStr(v.n)
      [] v.t = "float" -> FloatStr(v)
      [] v.t = "str"   -> <<"\"">> \o EscapeStr(v.s) \o <<"\"">>
      [] v.t = "list"  -> <<"[">> \o DumpItems(v.l) \o <<"]">>
      [] v.t = "dict"  -> <<"{">> \o DumpPairs(v.o) \o <<"}">>

DumpItems(l) ==
    IF l = <<>> THEN <<>>
    ELSE IF Len(l) = 1 THEN JsonDumps(l[1])
    ELSE JsonDumps(l[1]) \o <<",", " ">> \o DumpItems(Tail(l))

DumpPairs(o) ==
    IF o = <<>> THEN <<>>
    ELSE LET one == <<"\"", o[1][1], "\"", ":", " ">> \o JsonDumps(o[1][2])
         IN  IF Len(o) = 1 THEN one
             ELSE one \o <<",", " ">> \o DumpPairs(Tail(o))

---------------------------------------------------------------------------
(* serialize_value *)

\* isinstance(value, (int, float)): bool is a subclass of int
IsIntOrFloat(v) == v.t \in {"int", "float", "bool"}

\* str(value) of a number or a bool
NumStr(v) ==
    CASE v.t = "int"   -> IntStr(v.n)
      [] v.t = "float" -> FloatStr(v)
      [] v.t = "bool"  -> IF v.b THEN <<"T","r","u","e">> ELSE <<"F","a","l","s","e">>

\* .replace('\n', ' ').replace('\r', '')
StripNewlines(s) == Replace(Replace(s, <<NL>>, <<SP>>), <<CR>>, <<>>)

\* a slip: the carriage return left in
serialize_value_keeps_cr(v) ==
    IF v.t = "null" THEN <<>>
    ELSE IF v.t \in {"list", "dict"} THEN Replace(JsonDumps(v), <<NL>>, <<SP>>)
    ELSE IF v.t = "bool" THEN (IF v.b THEN <<"T","R","U","E">> ELSE <<"F","A","L","S","E">>)
    ELSE IF IsIntOrFloat(v) THEN NumStr(v)
    ELSE Replace(v.s, <<NL>>, <<SP>>)

serialize_value(v) ==
    IF v.t = "null" THEN <<>>
    ELSE IF v.t \in {"list", "dict"} THEN StripNewlines(JsonDumps(v))
    ELSE IF v.t = "bool" THEN (IF v.b THEN <<"T","R","U","E">> ELSE <<"F","A","L","S","E">>)
    ELSE IF IsIntOrFloat(v) THEN NumStr(v)
    ELSE StripNewlines(v.s)

---------------------------------------------------------------------------
(* The text of the keys and names the code handles character by character *)

KeyText ==
    "aristoteles" :> aristoteles @@
    "dekker" :> dekker @@
    "kolb" :> kolb @@
    "schulz_von_thun" :> schulz_von_thun @@
    "esthetiek" :> esthetiek @@
    "transactional" :> transactional @@
    "metaphor" :> metaphor @@
    "speech_act" :> speech_act @@
    "narrative" :> narrative @@
    "criterion_1_specific_bible_passage" :> <<"c","r","i","t","e","r","i","o","n","_","1","_","s","p","e","c","i","f","i","c","_","b","i","b","l","e","_","p","a","s","s","a","g","e">> @@
    "1_specific_bible_passage" :> <<"1","_","s","p","e","c","i","f","i","c","_","b","i","b","l","e","_","p","a","s","s","a","g","e">> @@
    "criterion_2_concrete_concrete" :> <<"c","r","i","t","e","r","i","o","n","_","2","_","c","o","n","c","r","e","t","e","_","c","o","n","c","r","e","t","e">> @@
    "2_concrete" :> <<"2","_","c","o","n","c","r","e","t","e">> @@
    "criterion_a1_imagery" :> <<"c","r","i","t","e","r","i","o","n","_","a","1","_","i","m","a","g","e","r","y">> @@
    "a1_imagery" :> <<"a","1","_","i","m","a","g","e","r","y">> @@
    "average_score_language" :> <<"a","v","e","r","a","g","e","_","s","c","o","r","e","_","l","a","n","g","u","a","g","e">> @@
    "criterion_b1_arc" :> <<"c","r","i","t","e","r","i","o","n","_","b","1","_","a","r","c">> @@
    "b1_arc" :> <<"b","1","_","a","r","c">> @@
    "average_score_structure" :> <<"a","v","e","r","a","g","e","_","s","c","o","r","e","_","s","t","r","u","c","t","u","r","e">> @@
    "HIGHLY_COHERENT" :> <<"H","I","G","H","L","Y","_","C","O","H","E","R","E","N","T">> @@
    "MOSTLY_COHERENT" :> <<"M","O","S","T","L","Y","_","C","O","H","E","R","E","N","T">> @@
    "MIXED" :> <<"M","I","X","E","D">> @@
    "INCOHERENT" :> <<"I","N","C","O","H","E","R","E","N","T">> @@
    "schulz" :> <<"s","c","h","u","l","z">> @@
    "aesthetics" :> <<"a","e","s","t","h","e","t","i","c","s">> @@
    "metadata" :> <<"m","e","t","a","d","a","t","a">> @@
    "logos" :> <<"l","o","g","o","s">> @@
    "pathos" :> <<"p","a","t","h","o","s">> @@
    "ethos" :> <<"e","t","h","o","s">> @@
    "orthodoxy_logos" :> <<"o","r","t","h","o","d","o","x","y","_","l","o","g","o","s">> @@
    "orthopathy_pathos" :> <<"o","r","t","h","o","p","a","t","h","y","_","p","a","t","h","o","s">> @@
    "orthopraxy_ethos" :> <<"o","r","t","h","o","p","r","a","x","y","_","e","t","h","o","s">> @@
    "phase_1_concrete_experience" :> <<"p","h","a","s","e","_","1","_","c","o","n","c","r","e","t","e","_","e","x","p","e","r","i","e","n","c","e">> @@
    "phase_2_reflective_observation" :> <<"p","h","a","s","e","_","2","_","r","e","f","l","e","c","t","i","v","e","_","o","b","s","e","r","v","a","t","i","o","n">> @@
    "phase_3_abstract_conceptualization" :> <<"p","h","a","s","e","_","3","_","a","b","s","t","r","a","c","t","_","c","o","n","c","e","p","t","u","a","l","i","z","a","t","i","o","n">> @@
    "phase_4_active_experimentation" :> <<"p","h","a","s","e","_","4","_","a","c","t","i","v","e","_","e","x","p","e","r","i","m","e","n","t","a","t","i","o","n">> @@
    "dreamer" :> <<"d","r","e","a","m","e","r">> @@
    "thinker" :> <<"t","h","i","n","k","e","r">> @@
    "doer" :> <<"d","o","e","r">> @@
    "decider" :> <<"d","e","c","i","d","e","r">> @@
    "cycle_completeness" :> <<"c","y","c","l","e","_","c","o","m","p","l","e","t","e","n","e","s","s">> @@
    "balance_between_phases" :> <<"b","a","l","a","n","c","e","_","b","e","t","w","e","e","n","_","p","h","a","s","e","s">> @@
    "holistic_learning" :> <<"h","o","l","i","s","t","i","c","_","l","e","a","r","n","i","n","g">> @@
    "factual_content_blue" :> <<"f","a","c","t","u","a","l","_","c","o","n","t","e","n","t","_","b","l","u","e">> @@
    "self_revelation_green" :> <<"s","e","l","f","_","r","e","v","e","l","a","t","i","o","n","_","g","r","e","e","n">> @@
    "relational_aspect_yellow" :> <<"r","e","l","a","t","i","o","n","a","l","_","a","s","p","e","c","t","_","y","e","l","l","o","w">> @@
    "appeal_aspect_red" :> <<"a","p","p","e","a","l","_","a","s","p","e","c","t","_","r","e","d">> @@
    "freedom_from_critical_parent_CP" :> <<"f","r","e","e","d","o","m","_","f","r","o","m","_","c","r","i","t","i","c","a","l","_","p","a","r","e","n","t","_","C","P">> @@
    "healthy_care_NP" :> <<"h","e","a","l","t","h","y","_","c","a","r","e","_","N","P">> @@
    "freedom_from_adapted_child_AC" :> <<"f","r","e","e","d","o","m","_","f","r","o","m","_","a","d","a","p","t","e","d","_","c","h","i","l","d","_","A","C">> @@
    "free_child_FC" :> <<"f","r","e","e","_","c","h","i","l","d","_","F","C">>

---------------------------------------------------------------------------
(* Python's operations on a decoded JSON value, as extract_analysis_data
   uses them.  A dict is its sequence of <<key, value>> pairs. *)

HasKey(o, key)  == \E i \in 1..Len(o) : o[i][1] = key
ValueOf(o, key) == o[CHOOSE i \in 1..Len(o) : o[i][1] = key][2]

\* the outcome of a piece of code: a value, nothing (a guard was false), or
\* an exception
Val(v)    == [k |-> "val", v |-> v]
Skip      == [k |-> "skip"]
Err(what) == [k |-> "raise", what |-> what]

\* the second argument of .get(): '', [], {} or (left out) None
Default(kind) ==
    CASE kind = "str"  -> JStr(<<>>)
      [] kind = "list" -> JList(<<>>)
      [] kind = "dict" -> EmptyDict
      [] kind = "none" -> JNull

\* v.get(key, default): only a dict has .get
PyGet(v, key, kind) ==
    IF IsDict(v)
    THEN Val(IF HasKey(v.o, key) THEN ValueOf(v.o, key) ELSE Default(kind))
    ELSE Err("AttributeError")

\* one step of a path: G is x.get(key, {}); I is "if key in x: x[key]";
\* D is "if isinstance(x.get(key), dict): x[key]"
G(key) == <<"get", key>>
I(key) == <<"item", key>>
D(key) == <<"ifdict", key>>

\* a slip: x[key] without the "key in x" test before it
StepItem_unguarded(v, key) ==
    IF IsDict(v) THEN (IF HasKey(v.o, key) THEN Val(ValueOf(v.o, key)) ELSE Err("KeyError"))
    ELSE Err("TypeError")

\* "if key in v: v[key]": a key of a dict, an element of a list, a
\* substring of a string; None, a number or a bool is not iterable, and a
\* list or a string takes no string index
StepItem(v, key) ==
    IF IsDict(v) THEN (IF HasKey(v.o, key) THEN Val(ValueOf(v.o, key)) ELSE Skip)
    ELSE IF v.t = "list"
    THEN (IF \E i \in 1..Len(v.l) : v.l[i].t = "str" /\ v.l[i].s = KeyText[key]
          THEN Err("TypeError") ELSE Skip)
    ELSE IF v.t = "str"
    THEN (IF Contains(v.s, KeyText[key]) THEN Err("TypeError") ELSE Skip)
    ELSE Err("TypeError")

Step(v, op) ==
    CASE op[1] = "get"    -> PyGet(v, op[2], "dict")
      [] op[1] = "item"   -> StepItem(v, op[2])
      [] op[1] = "ifdict" ->
            Bind(PyGet(v, op[2], "none"),
                 LAMBDA x : IF x.k # "val" THEN x
                            ELSE IF IsDict(x.v) THEN x ELSE Skip)

RECURSIVE Walk(_, _)
Walk(v, ops) ==
    IF ops = <<>> THEN Val(v)
    ELSE Bind(Step(v, Head(ops)),
              LAMBDA s : IF s.k # "val" THEN s ELSE Walk(s.v, Tail(ops)))

\* one assignment result[col] = ... of the code: the path to the dict that
\* holds the field, the field's key and default, and whether the value goes
\* through serialize_value ("ser") or is stored as it is ("raw")
R(kind, path, key, dflt, col) ==
    [kind |-> kind, path |-> path, key |-> key, dflt |-> dflt, col |-> col]

coherentie_mapping ==
    "HIGHLY_COHERENT" :> 10 @@ "MOSTLY_COHERENT" :> 7 @@ "MIXED" :> 4 @@ "INCOHERENT" :> 1

\* coherentie_mapping.get(x, ''): a list or a dict is unhashable
MapCoherentie(x) ==
    IF x.t \in {"list", "dict"} THEN Err("TypeError")
    ELSE IF x.t = "str" /\ \E key \in DOMAIN coherentie_mapping : KeyText[key] = x.s
    THEN Val(JInt(coherentie_mapping[CHOOSE key \in DOMAIN coherentie_mapping :
                                        KeyText[key] = x.s]))
    ELSE Val(JStr(<<>>))

\* the value a rule assigns
FieldOf(data, rule) ==
    Bind(Walk(data, rule.path),
         LAMBDA w : IF w.k = "val" THEN PyGet(w.v, rule.key, rule.dflt) ELSE w)

RuleValue(data, rule) ==
    Bind(FieldOf(data, rule),
         LAMBDA x : IF x.k # "val" THEN x
                    ELSE IF rule.kind = "ser" THEN Val(JStr(serialize_value(x.v)))
                    ELSE IF rule.kind = "map" THEN MapCoherentie(x.v)
                    ELSE x)

\* what a stretch of code did: the exception it raised, or the assignments
\* to result it came to, in order, each a pair of the column and Val(x), or
\* Skip when a guard kept the code from the assignment
Ok(a) == [k |-> "ok", a |-> a]

Then(r1, r2) ==
    Bind(r1, LAMBDA x : IF x.k = "raise" THEN x
                        ELSE Bind(r2, LAMBDA y : IF y.k = "raise" THEN y
                                                 ELSE Ok(x.a \o y.a)))

RunRules(data, rules) ==
    Bind([i \in 1..Len(rules) |-> RuleValue(data, rules[i])],
         LAMBDA outs :
            IF \E i \in 1..Len(rules) : outs[i].k = "raise"
            THEN outs[Min({i \in 1..Len(rules) : outs[i].k = "raise"})]
            ELSE Ok([i \in 1..Len(rules) |-> <<rules[i].col, outs[i]>>]))

\* the atomic name whose text is chars
Name(chars) == CHOOSE key \in DOMAIN KeyText : KeyText[key] = chars

StartsWith(s, pre) == Len(s) >= Len(pre) /\ SubSeq(s, 1, Len(pre)) = pre

\* a slip: the metadata keys used as column names as they are
metadata_block_no_prefix(data) ==
    IF ~HasKey(data.o, "metadata") THEN Ok(<<>>)
    ELSE LET m == ValueOf(data.o, "metadata")
         IN  IF ~IsDict(m) THEN Err("AttributeError")
             ELSE Ok([i \in 1..Len(m.o) |->
                        << <<m.o[i][1]>>, Val(JStr(serialize_value(m.o[i][2]))) >>])

\* lines 134-136: metadata, copied under metadata.<key> for every type
metadata_block(data) ==
    IF ~HasKey(data.o, "metadata") THEN Ok(<<>>)
    ELSE LET m == ValueOf(data.o, "metadata")
         IN  IF ~IsDict(m) THEN Err("AttributeError")
             ELSE Ok([i \in 1..Len(m.o) |->
                        << <<"metadata", m.o[i][1]>>,
                           Val(JStr(serialize_value(m.o[i][2]))) >>])

---------------------------------------------------------------------------
(* The assignments of extract_analysis_data, branch by branch *)

\* the columns of the aristoteles branch, in the order the code assigns them
aristoteles_rules ==
    <<
    R("raw", <<G("aristotelian_modes_analysis"), I("logos")>>, "score", "str", <<"aristoteles","logos","score">>),
    R("ser", <<G("aristotelian_modes_analysis"), I("logos")>>, "analysis", "str", <<"aristoteles","logos","analysis">>),
    R("ser", <<G("aristotelian_modes_analysis"), I("logos")>>, "quotes", "list", <<"aristoteles","logos","quotes">>),
    R("ser", <<G("aristotelian_modes_analysis"), I("logos")>>, "strengths", "list", <<"aristoteles","logos","strengths">>),
    R("ser", <<G("aristotelian_modes_analysis"), I("logos")>>, "improvement_points", "list", <<"aristoteles","logos","improvement_points">>),
    R("ser", <<G("aristotelian_modes_analysis"), I("logos")>>, "specific_diagnosis", "str", <<"aristoteles","logos","specific_diagnosis">>),
    R("raw", <<G("aristotelian_modes_analysis"), I("pathos")>>, "score", "str", <<"aristoteles","pathos","score">>),
    R("ser", <<G("aristotelian_modes_analysis"), I("pathos")>>, "analysis", "str", <<"aristoteles","pathos","analysis">>),
    R("ser", <<G("aristotelian_modes_analysis"), I("pathos")>>, "quotes", "list", <<"aristoteles","pathos","quotes">>),
    R("ser", <<G("aristotelian_modes_analysis"), I("pathos")>>, "strengths", "list", <<"aristoteles","pathos","strengths">>),
    R("ser", <<G("aristotelian_modes_analysis"), I("pathos")>>, "improvement_points", "list", <<"aristoteles","pathos","improvement_points">>),
    R("ser", <<G("aristotelian_modes_analysis"), I("pathos")>>, "specific_diagnosis", "str", <<"aristoteles","pathos","specific_diagnosis">>),
    R("ser", <<G("aristotelian_modes_analysis"), I("pathos")>>, "emotional_tone", "str", <<"aristoteles","pathos","emotional_tone">>),
    R("raw", <<G("aristotelian_modes_analysis"), I("ethos")>>, "score", "str", <<"aristoteles","ethos","score">>),
    R("ser", <<G("aristotelian_modes_analysis"), I("ethos")>>, "analysis", "str", <<"aristoteles","ethos","analysis">>),
    R("ser", <<G("aristotelian_modes_analysis"), I("ethos")>>, "quotes", "list", <<"aristoteles","ethos","quotes">>),
    R("ser", <<G("aristotelian_modes_analysis"), I("ethos")>>, "strengths", "list", <<"aristoteles","ethos","strengths">>),
    R("ser", <<G("aristotelian_modes_analysis"), I("ethos")>>, "improvement_points", "list", <<"aristoteles","ethos","improvement_points">>),
    R("ser", <<G("aristotelian_modes_analysis"), I("ethos")>>, "specific_diagnosis", "str", <<"aristoteles","ethos","specific_diagnosis">>),
    R("ser", <<G("aristotelian_modes_analysis"), I("ethos")>>, "authenticity", "str", <<"aristoteles","ethos","authenticity">>),
    R("ser", <<G("rhetorical_balance_analysis")>>, "dominant_mode", "str", <<"aristoteles","balance","dominant_mode">>),
    R("ser", <<G("rhetorical_balance_analysis")>>, "suppressed_mode", "str", <<"aristoteles","balance","suppressed_mode">>),
    R("raw", <<G("rhetorical_balance_analysis")>>, "balance_score", "str", <<"aristoteles","balance","balance_score">>),
    R("ser", <<G("rhetorical_balance_analysis")>>, "analysis", "str", <<"aristoteles","balance","analysis">>),
    R("ser", <<G("rhetorical_balance_analysis")>>, "consequences_of_imbalance", "list", <<"aristoteles","balance","consequences_of_imbalance">>),
    R("ser", <<G("rhetorical_balance_analysis")>>, "recommendation_for_balance", "str", <<"aristoteles","balance","recommendation_for_balance">>),
    R("raw", <<G("orthodoxy_orthopathy_orthopraxy"), I("orthodoxy_logos")>>, "score", "str", <<"aristoteles","orthodoxy_logos","score">>),
    R("ser", <<G("orthodoxy_orthopathy_orthopraxy"), I("orthodoxy_logos")>>, "analysis", "str", <<"aristoteles","orthodoxy_logos","analysis">>),
    R("raw", <<G("orthodoxy_orthopathy_orthopraxy"), I("orthopathy_pathos")>>, "score", "str", <<"aristoteles","orthopathy_pathos","score">>),
    R("ser", <<G("orthodoxy_orthopathy_orthopraxy"), I("orthopathy_pathos")>>, "analysis", "str", <<"aristoteles","orthopathy_pathos","analysis">>),
    R("raw", <<G("orthodoxy_orthopathy_orthopraxy"), I("orthopraxy_ethos")>>, "score", "str", <<"aristoteles","orthopraxy_ethos","score">>),
    R("ser", <<G("orthodoxy_orthopathy_orthopraxy"), I("orthopraxy_ethos")>>, "analysis", "str", <<"aristoteles","orthopraxy_ethos","analysis">>),
    R("raw", <<G("overall_picture")>>, "overall_rhetorical_score", "str", <<"aristoteles","overall","overall_rhetorical_score">>),
    R("ser", <<G("overall_picture")>>, "summary", "str", <<"aristoteles","overall","summary">>),
    R("ser", <<G("overall_picture")>>, "strengths_top_3", "list", <<"aristoteles","overall","strengths_top_3">>),
    R("ser", <<G("overall_picture")>>, "improvement_points_top_3", "list", <<"aristoteles","overall","improvement_points_top_3">>),
    R("ser", <<G("overall_picture")>>, "primary_rhetorical_style", "str", <<"aristoteles","overall","primary_rhetorical_style">>),
    R("ser", <<G("overall_picture")>>, "audience_analysis", "str", <<"aristoteles","overall","audience_analysis">>),
    R("ser", <<G("overall_picture")>>, "recommendations_for_next_sermon", "list", <<"aristoteles","overall","recommendations_for_next_sermon">>),
    R("ser", <<G("overall_picture")>>, "conclusion", "str", <<"aristoteles","overall","conclusion">>)
    >>

\* the columns of the dekker branch, in the order the code assigns them
dekker_rules ==
    <<
    R("avg", <<G("overall_dekker_analysis")>>, "average_score", "str", <<"dekker","overall","average_score">>),
    R("ser", <<G("overall_dekker_analysis")>>, "strengths", "list", <<"dekker","overall","strengths">>),
    R("ser", <<G("overall_dekker_analysis")>>, "weaknesses", "list", <<"dekker","overall","weaknesses">>),
    R("ser", <<G("overall_dekker_analysis")>>, "general_recommendation", "str", <<"dekker","overall","general_recommendation">>)
    >>

\* the columns of the kolb branch, in the order the code assigns them
kolb_rules ==
    <<
    R("raw", <<G("kolb_phases_analysis"), I("phase_1_concrete_experience")>>, "score", "str", <<"kolb","concrete_experience","score">>),
    R("ser", <<G("kolb_phases_analysis"), I("phase_1_concrete_experience")>>, "analysis", "str", <<"kolb","concrete_experience","analysis">>),
    R("ser", <<G("kolb_phases_analysis"), I("phase_1_concrete_experience")>>, "quotes", "list", <<"kolb","concrete_experience","quotes">>),
    R("ser", <<G("kolb_phases_analysis"), I("phase_1_concrete_experience")>>, "strengths", "list", <<"kolb","concrete_experience","strengths">>),
    R("ser", <<G("kolb_phases_analysis"), I("phase_1_concrete_experience")>>, "improvement_points", "list", <<"kolb","concrete_experience","improvement_points">>),
    R("ser", <<G("kolb_phases_analysis"), I("phase_1_concrete_experience")>>, "homiletical_manifestations", "str", <<"kolb","concrete_experience","homiletical_manifestations">>),
    R("raw", <<G("kolb_phases_analysis"), I("phase_2_reflective_observation")>>, "score", "str", <<"kolb","reflective_observation","score">>),
    R("ser", <<G("kolb_phases_analysis"), I("phase_2_reflective_observation")>>, "analysis", "str", <<"kolb","reflective_observation","analysis">>),
    R("ser", <<G("kolb_phases_analysis"), I("phase_2_reflective_observation")>>, "quotes", "list", <<"kolb","reflective_observation","quotes">>),
    R("ser", <<G("kolb_phases_analysis"), I("phase_2_reflective_observation")>>, "strengths", "list", <<"kolb","reflective_observation","strengths">>),
    R("ser", <<G("kolb_phases_analysis"), I("phase_2_reflective_observation")>>, "improvement_points", "list", <<"kolb","reflective_observation","improvement_points">>),
    R("ser", <<G("kolb_phases_analysis"), I("phase_2_reflective_observation")>>, "homiletical_manifestations", "str", <<"kolb","reflective_observation","homiletical_manifestations">>),
    R("raw", <<G("kolb_phases_analysis"), I("phase_3_abstract_conceptualization")>>, "score", "str", <<"kolb","abstract_conceptualization","score">>),
    R("ser", <<G("kolb_phases_analysis"), I("phase_3_abstract_conceptualization")>>, "analysis", "str", <<"kolb","abstract_conceptualization","analysis">>),
    R("ser", <<G("kolb_phases_analysis"), I("phase_3_abstract_conceptualization")>>, "quotes", "list", <<"kolb","abstract_conceptualization","quotes">>),
    R("ser", <<G("kolb_phases_analysis"), I("phase_3_abstract_conceptualization")>>, "strengths", "list", <<"kolb","abstract_conceptualization","strengths">>),
    R("ser", <<G("kolb_phases_analysis"), I("phase_3_abstract_conceptualization")>>, "improvement_points", "list", <<"kolb","abstract_conceptualization","improvement_points">>),
    R("ser", <<G("kolb_phases_analysis"), I("phase_3_abstract_conceptualization")>>, "homiletical_manifestations", "str", <<"kolb","abstract_conceptualization","homiletical_manifestations">>),
    R("raw", <<G("kolb_phases_analysis"), I("phase_4_active_experimentation")>>, "score", "str", <<"kolb","active_experimentation","score">>),
    R("ser", <<G("kolb_phases_analysis"), I("phase_4_active_experimentation")>>, "analysis", "str", <<"kolb","active_experimentation","analysis">>),
    R("ser", <<G("kolb_phases_analysis"), I("phase_4_active_experimentation")>>, "quotes", "list", <<"kolb","active_experimentation","quotes">>),
    R("ser", <<G("kolb_phases_analysis"), I("phase_4_active_experimentation")>>, "strengths", "list", <<"kolb","active_experimentation","strengths">>),
    R("ser", <<G("kolb_phases_analysis"), I("phase_4_active_experimentation")>>, "improvement_points", "list", <<"kolb","active_experimentation","improvement_points">>),
    R("ser", <<G("kolb_phases_analysis"), I("phase_4_active_experimentation")>>, "homiletical_manifestations", "str", <<"kolb","active_experimentation","homiletical_manifestations">>),
    R("raw", <<G("learning_styles_analysis"), I("dreamer")>>, "score", "str", <<"kolb","learning_style","dreamer","score">>),
    R("ser", <<G("learning_styles_analysis"), I("dreamer")>>, "analysis", "str", <<"kolb","learning_style","dreamer","analysis">>),
    R("raw", <<G("learning_styles_analysis"), I("thinker")>>, "score", "str", <<"kolb","learning_style","thinker","score">>),
    R("ser", <<G("learning_styles_analysis"), I("thinker")>>, "analysis", "str", <<"kolb","learning_style","thinker","analysis">>),
    R("raw", <<G("learning_styles_analysis"), I("doer")>>, "score", "str", <<"kolb","learning_style","doer","score">>),
    R("ser", <<G("learning_styles_analysis"), I("doer")>>, "analysis", "str", <<"kolb","learning_style","doer","analysis">>),
    R("raw", <<G("learning_styles_analysis"), I("decider")>>, "score", "str", <<"kolb","learning_style","decider","score">>),
    R("ser", <<G("learning_styles_analysis"), I("decider")>>, "analysis", "str", <<"kolb","learning_style","decider","analysis">>),
    R("raw", <<G("integrality_and_cycle"), I("cycle_completeness")>>, "score", "str", <<"kolb","integrality","cycle_completeness","score">>),
    R("ser", <<G("integrality_and_cycle"), I("cycle_completeness")>>, "analysis", "str", <<"kolb","integrality","cycle_completeness","analysis">>),
    R("raw", <<G("integrality_and_cycle"), I("balance_between_phases")>>, "score", "str", <<"kolb","integrality","balance_between_phases","score">>),
    R("ser", <<G("integrality_and_cycle"), I("balance_between_phases")>>, "analysis", "str", <<"kolb","integrality","balance_between_phases","analysis">>),
    R("raw", <<G("integrality_and_cycle"), I("holistic_learning")>>, "score", "str", <<"kolb","integrality","holistic_learning","score">>),
    R("ser", <<G("integrality_and_cycle"), I("holistic_learning")>>, "analysis", "str", <<"kolb","integrality","holistic_learning","analysis">>),
    R("raw", <<G("overall_picture")>>, "overall_kolb_score", "str", <<"kolb","overall","overall_kolb_score">>),
    R("ser", <<G("overall_picture")>>, "summary", "str", <<"kolb","overall","summary">>),
    R("ser", <<G("overall_picture")>>, "strengths_top_3", "list", <<"kolb","overall","strengths_top_3">>),
    R("ser", <<G("overall_picture")>>, "improvement_points_top_3", "list", <<"kolb","overall","improvement_points_top_3">>)
    >>

\* the columns of the schulz_von_thun branch, in the order the code assigns them
schulz_von_thun_rules ==
    <<
    R("raw", <<G("schulz_von_thun_analysis"), I("factual_content_blue")>>, "score", "str", <<"schulz","factual_content","score">>),
    R("ser", <<G("schulz_von_thun_analysis"), I("factual_content_blue")>>, "analysis", "str", <<"schulz","factual_content","analysis">>),
    R("ser", <<G("schulz_von_thun_analysis"), I("factual_content_blue")>>, "quotes", "list", <<"schulz","factual_content","quotes">>),
    R("ser", <<G("schulz_von_thun_analysis"), I("factual_content_blue")>>, "strengths", "list", <<"schulz","factual_content","strengths">>),
    R("ser", <<G("schulz_von_thun_analysis"), I("factual_content_blue")>>, "improvement_points", "list", <<"schulz","factual_content","improvement_points">>),
    R("raw", <<G("schulz_von_thun_analysis"), I("self_revelation_green")>>, "score", "str", <<"schulz","self_revelation","score">>),
    R("ser", <<G("schulz_von_thun_analysis"), I("self_revelation_green")>>, "analysis", "str", <<"schulz","self_revelation","analysis">>),
    R("ser", <<G("schulz_von_thun_analysis"), I("self_revelation_green")>>, "quotes", "list", <<"schulz","self_revelation","quotes">>),
    R("ser", <<G("schulz_von_thun_analysis"), I("self_revelation_green")>>, "strengths", "list", <<"schulz","self_revelation","strengths">>),
    R("ser", <<G("schulz_von_thun_analysis"), I("self_revelation_green")>>, "improvement_points", "list", <<"schulz","self_revelation","improvement_points">>),
    R("raw", <<G("schulz_von_thun_analysis"), I("relational_aspect_yellow")>>, "score", "str", <<"schulz","relational_aspect","score">>),
    R("ser", <<G("schulz_von_thun_analysis"), I("relational_aspect_yellow")>>, "analysis", "str", <<"schulz","relational_aspect","analysis">>),
    R("ser", <<G("schulz_von_thun_analysis"), I("relational_aspect_yellow")>>, "quotes", "list", <<"schulz","relational_aspect","quotes">>),
    R("ser", <<G("schulz_von_thun_analysis"), I("relational_aspect_yellow")>>, "strengths", "list", <<"schulz","relational_aspect","strengths">>),
    R("ser", <<G("schulz_von_thun_analysis"), I("relational_aspect_yellow")>>, "improvement_points", "list", <<"schulz","relational_aspect","improvement_points">>),
    R("raw", <<G("schulz_von_thun_analysis"), I("appeal_aspect_red")>>, "score", "str", <<"schulz","appeal_aspect","score">>),
    R("ser", <<G("schulz_von_thun_analysis"), I("appeal_aspect_red")>>, "analysis", "str", <<"schulz","appeal_aspect","analysis">>),
    R("ser", <<G("schulz_von_thun_analysis"), I("appeal_aspect_red")>>, "quotes", "list", <<"schulz","appeal_aspect","quotes">>),
    R("ser", <<G("schulz_von_thun_analysis"), I("appeal_aspect_red")>>, "strengths", "list", <<"schulz","appeal_aspect","strengths">>),
    R("ser", <<G("schulz_von_thun_analysis"), I("appeal_aspect_red")>>, "improvement_points", "list", <<"schulz","appeal_aspect","improvement_points">>),
    R("ser", <<G("congruence_and_disruptions")>>, "congruence_judgment", "str", <<"schulz","congruence","congruence_judgment">>),
    R("ser", <<G("congruence_and_disruptions")>>, "dominant_side", "str", <<"schulz","congruence","dominant_side">>),
    R("ser", <<G("congruence_and_disruptions")>>, "disruptions", "str", <<"schulz","congruence","disruptions">>),
    R("ser", <<G("congruence_and_disruptions")>>, "healing_disruption", "str", <<"schulz","congruence","healing_disruption">>),
    R("raw", <<G("overall_picture")>>, "overall_communication_score", "str", <<"schulz","overall","overall_communication_score">>),
    R("ser", <<G("overall_picture")>>, "summary", "str", <<"schulz","overall","summary">>),
    R("ser", <<G("overall_picture")>>, "strengths_top_3", "list", <<"schulz","overall","strengths_top_3">>),
    R("ser", <<G("overall_picture")>>, "improvement_points_top_3", "list", <<"schulz","overall","improvement_points_top_3">>)
    >>

\* the columns of the esthetiek branch, in the order the code assigns them
esthetiek_rules ==
    <<
    R("raw", <<G("domain_a_poetics_of_language")>>, "average_score_language", "str", <<"aesthetics","poetics","average_score">>),
    R("raw", <<G("domain_b_dramaturgy_of_structure")>>, "average_score_structure", "str", <<"aesthetics","dramaturgy","average_score">>),
    R("raw", <<G("kitsch_diagnosis")>>, "anti_kitsch_score", "str", <<"aesthetics","kitsch","anti_kitsch_score">>),
    R("ser", <<G("kitsch_diagnosis")>>, "analysis", "str", <<"aesthetics","kitsch","analysis">>),
    R("ser", <<G("kitsch_diagnosis")>>, "quotes", "list", <<"aesthetics","kitsch","quotes">>),
    R("raw", <<G("space_for_grace_analysis")>>, "space_score", "str", <<"aesthetics","space_for_grace","space_score">>),
    R("ser", <<G("space_for_grace_analysis")>>, "analysis", "str", <<"aesthetics","space_for_grace","analysis">>),
    R("ser", <<G("space_for_grace_analysis")>>, "quotes", "list", <<"aesthetics","space_for_grace","quotes">>),
    R("raw", <<G("overall_aesthetics")>>, "overall_aesthetic_score", "str", <<"aesthetics","overall","overall_aesthetic_score">>),
    R("ser", <<G("overall_aesthetics")>>, "summary", "str", <<"aesthetics","overall","summary">>),
    R("ser", <<G("overall_aesthetics")>>, "strengths_top_3", "list", <<"aesthetics","overall","strengths_top_3">>),
    R("ser", <<G("overall_aesthetics")>>, "improvement_points_top_3", "list", <<"aesthetics","overall","improvement_points_top_3">>)
    >>

\* the columns of the transactional branch, in the order the code assigns them
transactional_rules ==
    <<
    R("raw", <<G("ego_positions_scan"), G("parent"), I("freedom_from_critical_parent_CP")>>, "score", "str", <<"transactional","parent","freedom_CP","score">>),
    R("ser", <<G("ego_positions_scan"), G("parent"), I("freedom_from_critical_parent_CP")>>, "analysis", "str", <<"transactional","parent","freedom_CP","analysis">>),
    R("ser", <<G("ego_positions_scan"), G("parent"), I("freedom_from_critical_parent_CP")>>, "quotes", "list", <<"transactional","parent","freedom_CP","quotes">>),
    R("raw", <<G("ego_positions_scan"), G("parent"), I("healthy_care_NP")>>, "score", "str", <<"transactional","parent","nurturing_NP","score">>),
    R("ser", <<G("ego_positions_scan"), G("parent"), I("healthy_care_NP")>>, "analysis", "str", <<"transactional","parent","nurturing_NP","analysis">>),
    R("ser", <<G("ego_positions_scan"), G("parent"), I("healthy_care_NP")>>, "quotes", "list", <<"transactional","parent","nurturing_NP","quotes">>),
    R("raw", <<G("ego_positions_scan"), G("adult")>>, "score", "str", <<"transactional","adult","score">>),
    R("ser", <<G("ego_positions_scan"), G("adult")>>, "analysis", "str", <<"transactional","adult","analysis">>),
    R("ser", <<G("ego_positions_scan"), G("adult")>>, "quotes", "list", <<"transactional","adult","quotes">>),
    R("raw", <<G("ego_positions_scan"), G("child"), I("freedom_from_adapted_child_AC")>>, "score", "str", <<"transactional","child","freedom_AC","score">>),
    R("ser", <<G("ego_positions_scan"), G("child"), I("freedom_from_adapted_child_AC")>>, "analysis", "str", <<"transactional","child","freedom_AC","analysis">>),
    R("ser", <<G("ego_positions_scan"), G("child"), I("freedom_from_adapted_child_AC")>>, "quotes", "list", <<"transactional","child","freedom_AC","quotes">>),
    R("raw", <<G("ego_positions_scan"), G("child"), I("free_child_FC")>>, "score", "str", <<"transactional","child","free_FC","score">>),
    R("ser", <<G("ego_positions_scan"), G("child"), I("free_child_FC")>>, "analysis", "str", <<"transactional","child","free_FC","analysis">>),
    R("ser", <<G("ego_positions_scan"), G("child"), I("free_child_FC")>>, "quotes", "list", <<"transactional","child","free_FC","quotes">>),
    R("raw", <<G("transaction_analysis")>>, "communicative_purity_score", "str", <<"transactional","transaction","communicative_purity_score">>),
    R("ser", <<G("transaction_analysis")>>, "analysis", "str", <<"transactional","transaction","analysis">>),
    R("ser", <<G("transaction_analysis")>>, "primary_transaction_style", "str", <<"transactional","transaction","primary_transaction_style">>),
    R("ser", <<G("transaction_analysis")>>, "ulterior_motives", "str", <<"transactional","transaction","ulterior_motives">>),
    R("ser", <<G("games_analysis")>>, "detected_games", "list", <<"transactional","games","detected_games">>),
    R("ser", <<G("games_analysis")>>, "absence_of_games_analysis", "str", <<"transactional","games","absence_of_games_analysis">>),
    R("ser", <<G("drama_triangle_analysis"), D("preacher_roles")>>, "rescuer", "str", <<"transactional","drama","preacher_rescuer">>),
    R("ser", <<G("drama_triangle_analysis"), D("preacher_roles")>>, "persecutor", "str", <<"transactional","drama","preacher_persecutor">>),
    R("ser", <<G("drama_triangle_analysis"), D("preacher_roles")>>, "victim", "str", <<"transactional","drama","preacher_victim">>),
    R("ser", <<G("drama_triangle_analysis")>>, "congregation_position", "str", <<"transactional","drama","congregation_position">>),
    R("ser", <<G("drama_triangle_analysis")>>, "escape_possibilities", "str", <<"transactional","drama","escape_possibilities">>),
    R("raw", <<G("conclusion_and_recommendation")>>, "psychological_health_score", "str", <<"transactional","overall","psychological_health_score">>),
    R("ser", <<G("conclusion_and_recommendation")>>, "summary", "str", <<"transactional","overall","summary">>),
    R("ser", <<G("conclusion_and_recommendation")>>, "strengths_top_3", "list", <<"transactional","overall","strengths_top_3">>),
    R("ser", <<G("conclusion_and_recommendation")>>, "improvement_points_top_3", "list", <<"transactional","overall","improvement_points_top_3">>)
    >>

\* the columns of the metaphor branch, in the order the code assigns them
metaphor_rules ==
    <<
    R("ser", <<G("primaire_analyse")>>, "dominante_domeinen", "list", <<"metaphor","dominante_domeinen">>),
    R("ser", <<G("primaire_analyse")>>, "metafoor_inventaris", "list", <<"metaphor","metafoor_inventaris">>),
    R("ser", <<G("diagnostische_evaluatie"), G("coherentie_analyse")>>, "overall_coherentie", "str", <<"metaphor","coherentie","overall">>),
    R("map", <<G("diagnostische_evaluatie"), G("coherentie_analyse")>>, "overall_coherentie", "str", <<"metaphor","coherentie","score">>),
    R("ser", <<G("diagnostische_evaluatie"), G("coherentie_analyse")>>, "coherentie_verklaring", "str", <<"metaphor","coherentie","verklaring">>),
    R("ser", <<G("diagnostische_evaluatie"), G("coherentie_analyse")>>, "incoherentie_punten", "list", <<"metaphor","coherentie","incoherentie_punten">>),
    R("ser", <<G("diagnostische_evaluatie"), G("coherentie_analyse")>>, "succesvolle_blending", "list", <<"metaphor","coherentie","succesvolle_blending">>),
    R("ser", <<G("diagnostische_evaluatie")>>, "sterktes", "list", <<"metaphor","sterktes">>),
    R("ser", <<G("diagnostische_evaluatie")>>, "risicos", "list", <<"metaphor","risicos">>),
    R("ser", <<G("diagnostische_evaluatie"), G("text_world_analyse")>>, "primaire_wereld", "str", <<"metaphor","text_world","primaire_wereld">>),
    R("ser", <<G("diagnostische_evaluatie"), G("text_world_analyse")>>, "sub_worlds", "list", <<"metaphor","text_world","sub_worlds">>),
    R("ser", <<G("diagnostische_evaluatie"), G("text_world_analyse")>>, "world_building_effectiviteit", "str", <<"metaphor","text_world","effectiviteit">>),
    R("ser", <<G("diagnostische_evaluatie"), G("text_world_analyse")>>, "deictic_shifts", "list", <<"metaphor","text_world","deictic_shifts">>),
    R("ser", <<G("diagnostische_evaluatie"), G("schema_analyse")>>, "versterkte_schemas", "list", <<"metaphor","schema","versterkte_schemas">>),
    R("ser", <<G("diagnostische_evaluatie"), G("schema_analyse")>>, "verstoorde_schemas", "list", <<"metaphor","schema","verstoorde_schemas">>),
    R("ser", <<G("diagnostische_evaluatie"), G("schema_analyse")>>, "liturgische_schema_aansluiting", "str", <<"metaphor","schema","liturgische_aansluiting">>),
    R("ser", <<G("aanbevelingen")>>, "metafoor_audit_samenvatting", "str", <<"metaphor","audit_samenvatting">>),
    R("ser", <<G("aanbevelingen")>>, "revitalisatie_suggesties", "list", <<"metaphor","revitalisatie_suggesties">>),
    R("ser", <<G("aanbevelingen")>>, "coherentie_verbeteringen", "list", <<"metaphor","coherentie_verbeteringen">>),
    R("ser", <<G("aanbevelingen")>>, "entailment_checks", "list", <<"metaphor","entailment_checks">>),
    R("ser", <<G("aanbevelingen")>>, "alternatieve_domeinen", "list", <<"metaphor","alternatieve_domeinen">>),
    R("ser", <<G("aanbevelingen")>>, "overall_beoordeling", "str", <<"metaphor","overall","beoordeling">>),
    R("ser", <<G("aanbevelingen")>>, "slotopmerking", "str", <<"metaphor","overall","slotopmerking">>),
    R("ser", <<G("comparatieve_analyse")>>, "verschil_met_esthetiek", "str", <<"metaphor","vergelijk","esthetiek">>),
    R("ser", <<G("comparatieve_analyse")>>, "verschil_met_kolb", "str", <<"metaphor","vergelijk","kolb">>),
    R("ser", <<G("comparatieve_analyse")>>, "unieke_inzichten_CMT", "str", <<"metaphor","vergelijk","unieke_inzichten">>),
    R("ser", <<G("appendices")>>, "volledige_metafoor_lijst", "list", <<"metaphor","volledige_metafoor_lijst">>),
    R("ser", <<G("appendices")>>, "woord_frequentie_analyse", "dict", <<"metaphor","woord_frequentie">>),
    R("ser", <<G("appendices")>>, "notities", "str", <<"metaphor","notities">>)
    >>

\* the columns of the speech_act branch, in the order the code assigns them
speech_act_rules ==
    <<
    R("ser", <<G("drievoudige_structuur_analyse"), G("locutie")>>, "beschrijving", "str", <<"speech_act","locutie","beschrijving">>),
    R("ser", <<G("drievoudige_structuur_analyse"), G("locutie")>>, "exegetische_kwaliteit", "str", <<"speech_act","locutie","exegetische_kwaliteit">>),
    R("raw", <<G("drievoudige_structuur_analyse"), G("locutie")>>, "omvang_procent", "str", <<"speech_act","locutie","omvang_procent">>),
    R("ser", <<G("drievoudige_structuur_analyse"), G("illocutie")>>, "beschrijving", "str", <<"speech_act","illocutie","beschrijving">>),
    R("ser", <<G("drievoudige_structuur_analyse"), G("illocutie")>>, "primaire_kracht", "str", <<"speech_act","illocutie","primaire_kracht">>),
    R("raw", <<G("drievoudige_structuur_analyse"), G("illocutie")>>, "helderheid_score", "str", <<"speech_act","illocutie","helderheid_score">>),
    R("ser", <<G("drievoudige_structuur_analyse"), G("illocutie")>>, "voorbeelden", "list", <<"speech_act","illocutie","voorbeelden">>),
    R("ser", <<G("drievoudige_structuur_analyse"), G("perlocutie")>>, "beoogd_effect", "str", <<"speech_act","perlocutie","beoogd_effect">>),
    R("ser", <<G("drievoudige_structuur_analyse"), G("perlocutie")>>, "pneumatologisch_bewustzijn", "str", <<"speech_act","perlocutie","pneumatologisch_bewustzijn">>),
    R("ser", <<G("drievoudige_structuur_analyse"), G("perlocutie")>>, "perlocutionaire_werkwoorden", "list", <<"speech_act","perlocutie","werkwoorden">>),
    R("raw", <<G("werkwoord_analyse"), G("assertieven")>>, "frequentie", "str", <<"speech_act","werkwoord","assertieven","frequentie">>),
    R("raw", <<G("werkwoord_analyse"), G("assertieven")>>, "procent", "str", <<"speech_act","werkwoord","assertieven","procent">>),
    R("ser", <<G("werkwoord_analyse"), G("assertieven")>>, "voorbeelden", "list", <<"speech_act","werkwoord","assertieven","voorbeelden">>),
    R("ser", <<G("werkwoord_analyse"), G("assertieven")>>, "dominante_werkwoorden", "list", <<"speech_act","werkwoord","assertieven","dominante_werkwoorden">>),
    R("raw", <<G("werkwoord_analyse"), G("directieven")>>, "frequentie", "str", <<"speech_act","werkwoord","directieven","frequentie">>),
    R("raw", <<G("werkwoord_analyse"), G("directieven")>>, "procent", "str", <<"speech_act","werkwoord","directieven","procent">>),
    R("ser", <<G("werkwoord_analyse"), G("directieven")>>, "voorbeelden", "list", <<"speech_act","werkwoord","directieven","voorbeelden">>),
    R("ser", <<G("werkwoord_analyse"), G("directieven")>>, "dominante_werkwoorden", "list", <<"speech_act","werkwoord","directieven","dominante_werkwoorden">>),
    R("raw", <<G("werkwoord_analyse"), G("expressieven")>>, "frequentie", "str", <<"speech_act","werkwoord","expressieven","frequentie">>),
    R("raw", <<G("werkwoord_analyse"), G("expressieven")>>, "procent", "str", <<"speech_act","werkwoord","expressieven","procent">>),
    R("ser", <<G("werkwoord_analyse"), G("expressieven")>>, "voorbeelden", "list", <<"speech_act","werkwoord","expressieven","voorbeelden">>),
    R("ser", <<G("werkwoord_analyse"), G("expressieven")>>, "dominante_werkwoorden", "list", <<"speech_act","werkwoord","expressieven","dominante_werkwoorden">>),
    R("raw", <<G("werkwoord_analyse"), G("commissieven")>>, "frequentie", "str", <<"speech_act","werkwoord","commissieven","frequentie">>),
    R("raw", <<G("werkwoord_analyse"), G("commissieven")>>, "procent", "str", <<"speech_act","werkwoord","commissieven","procent">>),
    R("ser", <<G("werkwoord_analyse"), G("commissieven")>>, "voorbeelden", "list", <<"speech_act","werkwoord","commissieven","voorbeelden">>),
    R("ser", <<G("werkwoord_analyse"), G("commissieven")>>, "dominante_werkwoorden", "list", <<"speech_act","werkwoord","commissieven","dominante_werkwoorden">>),
    R("raw", <<G("werkwoord_analyse"), G("declaratieven")>>, "frequentie", "str", <<"speech_act","werkwoord","declaratieven","frequentie">>),
    R("raw", <<G("werkwoord_analyse"), G("declaratieven")>>, "procent", "str", <<"speech_act","werkwoord","declaratieven","procent">>),
    R("ser", <<G("werkwoord_analyse"), G("declaratieven")>>, "voorbeelden", "list", <<"speech_act","werkwoord","declaratieven","voorbeelden">>),
    R("ser", <<G("werkwoord_analyse"), G("declaratieven")>>, "dominante_werkwoorden", "list", <<"speech_act","werkwoord","declaratieven","dominante_werkwoorden">>),
    R("ser", <<G("constatief_performatief_diagnose")>>, "primaire_classificatie", "str", <<"speech_act","const_perf","classificatie">>),
    R("raw", <<G("constatief_performatief_diagnose")>>, "constatief_percentage", "str", <<"speech_act","const_perf","constatief_percentage">>),
    R("raw", <<G("constatief_performatief_diagnose")>>, "performatief_percentage", "str", <<"speech_act","const_perf","performatief_percentage">>),
    R("ser", <<G("constatief_performatief_diagnose"), G("constatief_surplus_analyse")>>, "aanwezig", "str", <<"speech_act","const_perf","surplus_aanwezig">>),
    R("ser", <<G("constatief_performatief_diagnose"), G("constatief_surplus_analyse")>>, "ernst", "str", <<"speech_act","const_perf","surplus_ernst">>),
    R("ser", <<G("constatief_performatief_diagnose"), G("performatief_deficit_analyse")>>, "aanwezig", "str", <<"speech_act","const_perf","deficit_aanwezig">>),
    R("ser", <<G("constatief_performatief_diagnose"), G("performatief_deficit_analyse")>>, "ernst", "str", <<"speech_act","const_perf","deficit_ernst">>),
    R("ser", <<G("constatief_performatief_diagnose"), G("toezegging_check")>>, "toezegging_aanwezig", "str", <<"speech_act","toezegging","aanwezig">>),
    R("raw", <<G("constatief_performatief_diagnose"), G("toezegging_check")>>, "aantal_toezeggen", "str", <<"speech_act","toezegging","aantal">>),
    R("ser", <<G("constatief_performatief_diagnose"), G("toezegging_check")>>, "kwaliteit_toezeggen", "str", <<"speech_act","toezegging","kwaliteit">>),
    R("raw", <<G("adressering_analyse")>>, "adressering_effectiviteit", "str", <<"speech_act","adressering","effectiviteit">>),
    R("raw", <<G("adressering_analyse"), G("persoonsvorm_distributie"), G("eerste_persoon")>>, "frequentie", "str", <<"speech_act","adressering","eerste_persoon","frequentie">>),
    R("raw", <<G("adressering_analyse"), G("persoonsvorm_distributie"), G("tweede_persoon")>>, "frequentie", "str", <<"speech_act","adressering","tweede_persoon","frequentie">>),
    R("raw", <<G("adressering_analyse"), G("persoonsvorm_distributie"), G("derde_persoon")>>, "frequentie", "str", <<"speech_act","adressering","derde_persoon","frequentie">>),
    R("ser", <<G("sacramenteel_patroon_analyse")>>, "patroon_identificatie", "str", <<"speech_act","sacramenteel","patroon">>),
    R("ser", <<G("sacramenteel_patroon_analyse"), G("foutief_patroon")>>, "aanwezig", "str", <<"speech_act","sacramenteel","foutief_aanwezig">>),
    R("ser", <<G("sacramenteel_patroon_analyse"), G("sacramenteel_patroon")>>, "aanwezig", "str", <<"speech_act","sacramenteel","sacramenteel_aanwezig">>),
    R("ser", <<G("sacramenteel_patroon_analyse"), G("sacramenteel_patroon")>>, "kwaliteit", "str", <<"speech_act","sacramenteel","sacramenteel_kwaliteit">>),
    R("ser", <<G("diagnostische_evaluatie")>>, "primaire_diagnose", "str", <<"speech_act","diagnose","primaire">>),
    R("ser", <<G("diagnostische_evaluatie")>>, "diagnose_toelichting", "str", <<"speech_act","diagnose","toelichting">>),
    R("ser", <<G("diagnostische_evaluatie")>>, "sterke_punten", "list", <<"speech_act","diagnose","sterke_punten">>),
    R("ser", <<G("diagnostische_evaluatie")>>, "zwakke_punten", "list", <<"speech_act","diagnose","zwakke_punten">>),
    R("raw", <<G("diagnostische_evaluatie")>>, "gebeuren_score", "str", <<"speech_act","diagnose","gebeuren_score">>),
    R("raw", <<G("diagnostische_evaluatie")>>, "sacramentele_kracht", "str", <<"speech_act","diagnose","sacramentele_kracht">>),
    R("ser", <<G("theologische_diepte_analyse"), G("openbaringsleer")>>, "god_als_spreker", "str", <<"speech_act","theologie","god_als_spreker">>),
    R("ser", <<G("theologische_diepte_analyse"), G("openbaringsleer")>>, "prediker_als_mandataris", "str", <<"speech_act","theologie","prediker_mandataris">>),
    R("ser", <<G("theologische_diepte_analyse"), G("pneumatologie")>>, "geest_rol_erkend", "str", <<"speech_act","theologie","geest_rol">>),
    R("ser", <<G("theologische_diepte_analyse"), G("sacramentstheologie")>>, "preek_als_genademiddel", "str", <<"speech_act","theologie","preek_als_genademiddel">>),
    R("ser", <<G("aanbevelingen")>>, "werkwoord_audit_samenvatting", "str", <<"speech_act","aanbeveling","audit_samenvatting">>),
    R("ser", <<G("aanbevelingen"), G("performatieve_intensivering")>>, "nodig", "str", <<"speech_act","aanbeveling","perf_intensivering_nodig">>),
    R("ser", <<G("aanbevelingen")>>, "overall_beoordeling", "str", <<"speech_act","aanbeveling","overall_beoordeling">>),
    R("ser", <<G("aanbevelingen")>>, "slotopmerking", "str", <<"speech_act","aanbeveling","slotopmerking">>)
    >>

\* the columns of the narrative branch, in the order the code assigns them
narrative_rules ==
    <<
    R("ser", <<G("actantiele_analyse"), G("primair_narratief_programma")>>, "beschrijving", "str", <<"narrative","primair","beschrijving">>),
    R("ser", <<G("actantiele_analyse"), G("primair_narratief_programma"), G("subject")>>, "identificatie", "str", <<"narrative","subject","identificatie">>),
    R("raw", <<G("actantiele_analyse"), G("primair_narratief_programma"), G("subject")>>, "frequentie_score", "str", <<"narrative","subject","frequentie_score">>),
    R("ser", <<G("actantiele_analyse"), G("primair_narratief_programma"), G("object")>>, "identificatie", "str", <<"narrative","object","identificatie">>),
    R("ser", <<G("actantiele_analyse"), G("primair_narratief_programma"), G("object")>>, "aard_van_object", "str", <<"narrative","object","aard">>),
    R("ser", <<G("actantiele_analyse"), G("primair_narratief_programma"), G("zender")>>, "identificatie", "str", <<"narrative","zender","identificatie">>),
    R("ser", <<G("actantiele_analyse"), G("primair_narratief_programma"), G("zender")>>, "rol_interpretatie", "str", <<"narrative","zender","rol">>),
    R("ser", <<G("actantiele_analyse"), G("primair_narratief_programma"), G("ontvanger")>>, "identificatie", "str", <<"narrative","ontvanger","identificatie">>),
    R("ser", <<G("actantiele_analyse"), G("primair_narratief_programma"), G("ontvanger")>>, "positie_hoorder", "str", <<"narrative","ontvanger","positie_hoorder">>),
    R("ser", <<G("actantiele_analyse"), G("primair_narratief_programma"), G("helper")>>, "identificatie", "str", <<"narrative","helper","identificatie">>),
    R("ser", <<G("actantiele_analyse"), G("primair_narratief_programma"), G("helper")>>, "rol_van_god", "str", <<"narrative","helper","rol_god">>),
    R("ser", <<G("actantiele_analyse"), G("primair_narratief_programma"), G("helper")>>, "rol_van_geest", "str", <<"narrative","helper","rol_geest">>),
    R("ser", <<G("actantiele_analyse"), G("primair_narratief_programma"), G("tegenstander")>>, "identificatie", "str", <<"narrative","tegenstander","identificatie">>),
    R("ser", <<G("actantiele_analyse"), G("primair_narratief_programma"), G("tegenstander")>>, "ernst_tegenstander", "str", <<"narrative","tegenstander","ernst">>),
    R("ser", <<G("actantiele_analyse"), G("secundair_narratief_programma")>>, "aanwezig", "str", <<"narrative","secundair","aanwezig">>),
    R("ser", <<G("actantiele_analyse"), G("secundair_narratief_programma")>>, "beschrijving", "str", <<"narrative","secundair","beschrijving">>),
    R("ser", <<G("actantiele_analyse"), G("secundair_narratief_programma")>>, "verhouding_tot_primair", "str", <<"narrative","secundair","verhouding">>),
    R("ser", <<G("grammaticale_analyse"), G("subject_check")>>, "ratio", "str", <<"narrative","grammaticaal","ratio">>),
    R("raw", <<G("grammaticale_analyse"), G("subject_check")>>, "rutledge_score", "str", <<"narrative","grammaticaal","rutledge_score">>),
    R("ser", <<G("grammaticale_analyse"), G("modale_analyse")>>, "dominante_modaliteit", "str", <<"narrative","modal","dominante_modaliteit">>),
    R("ser", <<G("grammaticale_analyse"), G("modale_analyse")>>, "modale_interpretatie", "str", <<"narrative","modal","interpretatie">>),
    R("ser", <<G("semiotisch_vierkant_analyse"), G("primaire_tegenstelling")>>, "s1", "str", <<"narrative","semiotisch","s1">>),
    R("ser", <<G("semiotisch_vierkant_analyse"), G("primaire_tegenstelling")>>, "s2", "str", <<"narrative","semiotisch","s2">>),
    R("ser", <<G("semiotisch_vierkant_analyse")>>, "beweging_in_preek", "str", <<"narrative","semiotisch","beweging">>),
    R("ser", <<G("semiotisch_vierkant_analyse")>>, "theologische_resolutie", "str", <<"narrative","semiotisch","resolutie">>),
    R("ser", <<G("diagnostische_evaluatie")>>, "primaire_classificatie", "str", <<"narrative","diagnose","classificatie">>),
    R("ser", <<G("diagnostische_evaluatie")>>, "classificatie_toelichting", "str", <<"narrative","diagnose","toelichting">>),
    R("ser", <<G("diagnostische_evaluatie")>>, "indicatoren_moralisme", "list", <<"narrative","diagnose","indicatoren_moralisme">>),
    R("ser", <<G("diagnostische_evaluatie")>>, "indicatoren_genade", "list", <<"narrative","diagnose","indicatoren_genade">>),
    R("ser", <<G("diagnostische_evaluatie"), G("exemplarisme_check")>>, "aanwezig", "str", <<"narrative","exemplarisme","aanwezig">>),
    R("ser", <<G("diagnostische_evaluatie"), G("exemplarisme_check")>>, "bijbelse_figuren_als_model", "list", <<"narrative","exemplarisme","figuren">>),
    R("ser", <<G("diagnostische_evaluatie"), G("identificatie_patroon")>>, "hoorder_identificeert_met", "str", <<"narrative","identificatie","met">>),
    R("ser", <<G("diagnostische_evaluatie"), G("identificatie_patroon")>>, "effect_op_hoorder", "str", <<"narrative","identificatie","effect">>),
    R("raw", <<G("diagnostische_evaluatie"), G("narratieve_coherentie")>>, "coherentie_score", "str", <<"narrative","coherentie","score">>),
    R("ser", <<G("theologische_diepte_analyse"), G("soteriologie")>>, "primaire_model", "str", <<"narrative","theologie","soteriologie_model">>),
    R("ser", <<G("theologische_diepte_analyse"), G("soteriologie")>>, "menselijke_rol_in_redding", "str", <<"narrative","theologie","menselijke_rol">>),
    R("ser", <<G("theologische_diepte_analyse"), G("pneumatologie")>>, "rol_heilige_geest", "str", <<"narrative","theologie","geest_rol">>),
    R("ser", <<G("theologische_diepte_analyse"), G("hamartologie")>>, "aard_van_zonde", "str", <<"narrative","theologie","zonde_aard">>),
    R("ser", <<G("theologische_diepte_analyse"), G("eschatologie")>>, "hoop_structuur", "str", <<"narrative","theologie","hoop_structuur">>),
    R("ser", <<G("aanbevelingen")>>, "actantiele_audit_samenvatting", "str", <<"narrative","aanbeveling","audit_samenvatting">>),
    R("ser", <<G("aanbevelingen"), G("subject_herpositionering")>>, "nodig", "str", <<"narrative","aanbeveling","herpositionering_nodig">>),
    R("ser", <<G("aanbevelingen")>>, "overall_beoordeling", "str", <<"narrative","aanbeveling","overall_beoordeling">>),
    R("ser", <<G("aanbevelingen")>>, "slotopmerking", "str", <<"narrative","aanbeveling","slotopmerking">>)
    >>

---------------------------------------------------------------------------
(* float() and the mean of the dekker branch *)

Whitespace == {SP, NL, CR, "\t"}

RECURSIVE LStrip(_)
LStrip(s) == IF s # <<>> /\ Head(s) \in Whitespace THEN LStrip(Tail(s)) ELSE s

RECURSIVE RStrip(_)
RStrip(s) == IF s # <<>> /\ s[Len(s)] \in Whitespace
             THEN RStrip(SubSeq(s, 1, Len(s) - 1)) ELSE s

DigitOf(c) == CHOOSE d \in 0..9 : DigitChar(d) = c

RECURSIVE DigitsValue(_)
DigitsValue(s) ==
    IF s = <<>> THEN 0
    ELSE 10 * DigitsValue(SubSeq(s, 1, Len(s) - 1)) + DigitOf(s[Len(s)])

\* float(score): of the strings, the ones the model feeds it are digits
\* with whitespace around them (converted) and others with a letter
\* (ValueError)
PyFloat(v) ==
    CASE v.t = "int"   -> Val(JFloat(v.n, 1))
      [] v.t = "float" -> Val(v)
      [] v.t = "bool"  -> Val(JFloat(IF v.b THEN 1 ELSE 0, 1))
      [] v.t = "str"   ->
            LET s == RStrip(LStrip(v.s))
            IN  IF s # <<>> /\ \A i \in 1..Len(s) : \E d \in 0..9 : s[i] = DigitChar(d)
                THEN Val(JFloat(DigitsValue(s), 1))
                ELSE Err("ValueError")
      [] OTHER         -> Err("TypeError")

\* line 190: .replace('criterion_', '').replace('concrete_concrete', 'concrete')
normalized_key(criterion_key) ==
    Name(Replace(Replace(KeyText[criterion_key],
                         <<"c","r","i","t","e","r","i","o","n","_">>, <<>>),
                 <<"c","o","n","c","r","e","t","e","_","c","o","n","c","r","e","t","e">>,
                 <<"c","o","n","c","r","e","t","e">>))

\* d.get(key, default) of a dict d, and serialize_value of it
Field(d, key, kind) == PyGet(d, key, kind).v

Serialized(d, key, kind) ==
    Bind(Field(d, key, kind), LAMBDA x : Val(JStr(serialize_value(x))))

\* lines 188-201, one turn of the loop: the four columns of a criterion
dekker_criterion(criterion_key, criterion_data) ==
    IF ~IsDict(criterion_data) THEN <<>>
    ELSE Bind(normalized_key(criterion_key), LAMBDA nk :
            << << <<"dekker", nk, "score">>, Val(Field(criterion_data, "score_1_to_10", "str")) >>,
               << <<"dekker", nk, "findings">>, Serialized(criterion_data, "findings", "str") >>,
               << <<"dekker", nk, "quotes">>, Serialized(criterion_data, "quotes", "list") >>,
               << <<"dekker", nk, "improvement_point">>,
                  Serialized(criterion_data, "improvement_point", "str") >> >>)

RECURSIVE dekker_criteria(_)
dekker_criteria(pairs) ==
    IF pairs = <<>> THEN <<>>
    ELSE dekker_criterion(pairs[1][1], pairs[1][2]) \o dekker_criteria(Tail(pairs))

\* lines 196-201: the scores float() converts, in order
RECURSIVE criterion_scores(_)
criterion_scores(pairs) ==
    IF pairs = <<>> THEN <<>>
    ELSE Bind(IF IsDict(pairs[1][2]) THEN Field(pairs[1][2], "score_1_to_10", "str")
              ELSE JNull,
              LAMBDA score :
                 IF (score.t = "str" /\ score.s = <<>>) \/ score.t = "null" THEN <<>>
                 ELSE Bind(PyFloat(score),
                           LAMBDA f : IF f.k = "val" THEN <<f.v>> ELSE <<>>))
         \o criterion_scores(Tail(pairs))

RECURSIVE SumFloats(_)
SumFloats(fs) ==
    IF fs = <<>> THEN JFloat(0, 1)
    ELSE Bind(SumFloats(Tail(fs)),
              LAMBDA rest : JFloat(fs[1].num * rest.den + rest.num * fs[1].den,
                                   fs[1].den * rest.den))

\* a slip: the average of the JSON tested for its truth, which 0 fails
fallback_average_when_falsy(avg_score, scores) ==
    IF ((avg_score.t = "str" /\ avg_score.s = <<>>) \/ avg_score.t = "null"
            \/ avg_score = JInt(0)) /\ scores # <<>>
    THEN Bind(SumFloats(scores), LAMBDA sum : JFloat(sum.num, sum.den * Len(scores)))
    ELSE avg_score

\* a slip: the mean taken over one score too many
fallback_average_off_by_one(avg_score, scores) ==
    IF ((avg_score.t = "str" /\ avg_score.s = <<>>) \/ avg_score.t = "null") /\ scores # <<>>
    THEN Bind(SumFloats(scores), LAMBDA sum : JFloat(sum.num, sum.den * (Len(scores) + 1)))
    ELSE avg_score

\* lines 206-208: the average computed from the sub-scores when the JSON
\* gives none
fallback_average(avg_score, scores) ==
    IF ((avg_score.t = "str" /\ avg_score.s = <<>>) \/ avg_score.t = "null") /\ scores # <<>>
    THEN Bind(SumFloats(scores), LAMBDA sum : JFloat(sum.num, sum.den * Len(scores)))
    ELSE avg_score

\* the dekker branch
\* lines 203-212: the overall columns, the average with its fallback
dekker_overall(overall, scores) ==
    IF overall.k = "raise" THEN overall
    ELSE Ok([i \in 1..Len(overall.a) |->
               IF dekker_rules[i].kind = "avg"
               THEN <<overall.a[i][1], Val(fallback_average(overall.a[i][2].v, scores))>>
               ELSE overall.a[i]])

dekker_branch(data) ==
    Bind(Field(data, "analysis_per_criterion", "dict"), LAMBDA criteria :
        IF ~IsDict(criteria) THEN Err("AttributeError")
        ELSE Bind(criterion_scores(criteria.o), LAMBDA scores :
             Bind(RunRules(data, dekker_rules), LAMBDA overall :
                Then(Ok(dekker_criteria(criteria.o)), dekker_overall(overall, scores)))))

\* lines 293-299 and 304-310, one turn of the loop over a domain's items
esthetiek_criterion(part, key, val) ==
    IF StartsWith(KeyText[key], <<"c","r","i","t","e","r","i","o","n","_">>) /\ IsDict(val)
    THEN Bind(Name(Replace(KeyText[key], <<"c","r","i","t","e","r","i","o","n","_">>, <<>>)),
              LAMBDA criterion_name :
                 << << <<"aesthetics", part, criterion_name, "score">>,
                       Val(Field(val, "score", "str")) >>,
                    << <<"aesthetics", part, criterion_name, "analysis">>,
                       Serialized(val, "analysis", "str") >>,
                    << <<"aesthetics", part, criterion_name, "quotes">>,
                       Serialized(val, "quotes", "list") >> >>)
    ELSE <<>>

RECURSIVE esthetiek_criteria(_, _)
esthetiek_criteria(part, pairs) ==
    IF pairs = <<>> THEN <<>>
    ELSE esthetiek_criterion(part, pairs[1][1], pairs[1][2])
         \o esthetiek_criteria(part, Tail(pairs))

\* the esthetiek branch
esthetiek_branch(data) ==
    Bind(Field(data, "domain_a_poetics_of_language", "dict"), LAMBDA dom_a :
    Bind(Field(data, "domain_b_dramaturgy_of_structure", "dict"), LAMBDA dom_b :
        IF ~IsDict(dom_a) \/ ~IsDict(dom_b) THEN Err("AttributeError")
        ELSE Then(RunRules(data, esthetiek_rules),
                  Ok(esthetiek_criteria("poetics", dom_a.o)
                     \o esthetiek_criteria("dramaturgy", dom_b.o)))))

\* the branch of the if/elif chain of lines 139-642; no branch for an
\* unknown type
branch(data, analysis_type) ==
    CASE analysis_type = aristoteles     -> RunRules(data, aristoteles_rules)
      [] analysis_type = dekker          -> dekker_branch(data)
      [] analysis_type = kolb            -> RunRules(data, kolb_rules)
      [] analysis_type = schulz_von_thun -> RunRules(data, schulz_von_thun_rules)
      [] analysis_type = esthetiek       -> esthetiek_branch(data)
      [] analysis_type = transactional   -> RunRules(data, transactional_rules)
      [] analysis_type = metaphor        -> RunRules(data, metaphor_rules)
      [] analysis_type = speech_act      -> RunRules(data, speech_act_rules)
      [] analysis_type = narrative       -> RunRules(data, narrative_rules)
      [] OTHER                           -> Ok(<<>>)

\* result after the assignments a, a later one to a column replacing an
\* earlier one
ResultOf(a) ==
    [col \in {a[i][1] : i \in {j \in 1..Len(a) : a[j][2].k = "val"}} |->
        a[Max({i \in 1..Len(a) : a[i][1] = col /\ a[i][2].k = "val"})][2].v]

\* the dict extract_analysis_data returns, or the exception it raises
extract_analysis_data(data, analysis_type) ==
    Bind(Then(metadata_block(data), branch(data, analysis_type)),
         LAMBDA r : IF r.k = "raise" THEN r ELSE [k |-> "ok", result |-> ResultOf(r.a)])

\* extracted before the call
NotExtracted == [k |-> "none"]

NoRow == [c \in {} |-> JNull]

---------------------------------------------------------------------------
(* The docs directory: one file, its name drawn from the pieces below *)

Pieces ==
    { <<"0","1">>, <<"B">>, kolb, <<"s","p","e","e","c","h">>, speech_act,
      <<"s","t","a","t","i","s","t","i","c","s">>, <<"n",".","j","s","o","n">> }

\* with the extension, or without any
Suffixes == { DOT_JSON, <<>> }

PieceSeqs == UNION {[1..k -> Pieces] : k \in 1..MaxPieces}

Filenames == {Join(ps, US) \o suf : ps \in PieceSeqs, suf \in Suffixes}

\* what open + json.load give: a value ("json"), a JSONDecodeError or an
\* IOError ("error"), or the UnicodeDecodeError of bytes that are no UTF-8
\* ("undecodable"), which the except clauses of the four programs let through
Loaded(v) == [kind |-> "json", value |-> v]

NoSermons == [k \in {} |-> 0]

---------------------------------------------------------------------------
(* load_all_sermons: the body of its loop, for one file *)

StoreRecord(sm, key, type, rec) ==
    IF key \in DOMAIN sm
    THEN [sm EXCEPT ![key] = (type :> rec) @@ sm[key]]
    ELSE (key :> (type :> rec)) @@ sm

\* a slip: only an array of one element is unwrapped
first_of_one_or_self(v) ==
    IF IsList(v) THEN (IF Len(v.l) = 1 THEN v.l[1] ELSE JNull) ELSE v

\* lines 679-685: the first element of an array stands for the array; None
\* here stands for an array without one, which is skipped as any value that
\* is no dict is
first_or_self(v) ==
    IF IsList(v) THEN (IF Len(v.l) > 0 THEN v.l[1] ELSE JNull) ELSE v

LoadFile ==
    /\ phase = "files"
    /\ conv_state = "todo"
    /\ LET parsed == parse_filename(filename)
           data   == first_or_self(content.value)
       IN  /\ conv_parsed' = parsed
           /\ IF parsed = None
              THEN /\ skipped' = skipped + 1
                   /\ conv_state' = "done"
                   /\ UNCHANGED <<sermons, processed>>
              ELSE IF ~IsTriple(parsed) \/ content.kind = "undecodable"
              THEN /\ conv_state' = "raised"
                   /\ UNCHANGED <<sermons, processed, skipped>>
              ELSE IF content.kind # "json"
              THEN /\ skipped' = skipped + 1
                   /\ conv_state' = "done"
                   /\ UNCHANGED <<sermons, processed>>
              ELSE IF ~IsDict(data)
              THEN /\ skipped' = skipped + 1
                   /\ conv_state' = "done"
                   /\ UNCHANGED <<sermons, processed>>
              ELSE /\ sermons' = StoreRecord(sermons, <<parsed[1], parsed[2]>>,
                                             parsed[3],
                                             [filename |-> filename, data |-> data])
                   /\ processed' = processed + 1
                   /\ conv_state' = "done"
                   /\ UNCHANGED skipped
    /\ UNCHANGED <<phase, filename, content, existing_files, chk_done, chk_parsed>>
    /\ UNCHANGED <<serVars, extVars>>
    /\ UNCHANGED laterVars

---------------------------------------------------------------------------
(* check_complete_cases: the body of its first loop, for one file *)

AddExisting(ef, key, type) ==
    IF key \in DOMAIN ef
    THEN [ef EXCEPT ![key] = @ \cup {type}]
    ELSE (key :> {type}) @@ ef

CollectFile ==
    /\ phase = "files"
    /\ ~chk_done
    /\ LET parsed == chk_parse_filename(filename)
       IN  /\ chk_parsed' = parsed
           /\ IF IsTriple(parsed) /\ parsed[3] \in Range(ANALYSIS_TYPES)
              THEN existing_files' = AddExisting(existing_files,
                                                 <<parsed[1], parsed[2]>>, parsed[3])
              ELSE UNCHANGED existing_files
    /\ chk_done' = TRUE
    /\ UNCHANGED <<phase, filename, content, sermons, processed, skipped,
                   conv_state, conv_parsed>>
    /\ UNCHANGED <<serVars, extVars>>
    /\ UNCHANGED laterVars

InitFiles ==
    /\ phase = "files"
    /\ filename \in Filenames
    /\ content = Loaded(EmptyDict)
    /\ sermons = NoSermons
    /\ processed = 0
    /\ skipped = 0
    /\ conv_state = "todo"
    /\ conv_parsed = None
    /\ existing_files = NoSermons
    /\ chk_done = FALSE
    /\ chk_parsed = None
    /\ value = JNull
    /\ cell = <<>>
    /\ ser_done = FALSE
    /\ payload = EmptyDict
    /\ cur_type = <<>>
    /\ puts = 0
    /\ last_slot = 0
    /\ extracted = NotExtracted
    /\ sermon = <<>>
    /\ row = NoRow
    /\ written = NoRow
    /\ analyses_done = {}
    /\ LaterIdle

NextFiles == LoadFile \/ CollectFile

SpecFiles == InitFiles /\ [][NextFiles]_vars

---------------------------------------------------------------------------
(* Properties of parse_filename and of the two scans *)

\* the tokens of the file's stem (the name without its last five characters)
StemTokens == Split(SubSeq(filename, 1, Len(filename) - 5), "_")

SingleTokenTypes == {d \in Range(ANALYSIS_TYPES) : ~Contains(d, US)}
MultiTokenTypes  == Range(ANALYSIS_TYPES) \ SingleTokenTypes

HasFragment == \E p \in Range(skip_patterns) : Contains(filename, p)
HasMarker   == Contains(filename, B_MARKER)
TokenHasExt == \E k \in 1..Len(StemTokens) : Contains(StemTokens[k], DOT_JSON)

\* the tokens of type d are the tokens at (0-based) index i and on
TypeAt(i, d) ==
    LET dt == Split(d, "_")
    IN  /\ i + Len(dt) <= Len(StemTokens)
        /\ SubSeq(StemTokens, i + 1, i + Len(dt)) = dt

AnyTypeAt(i) == \E d \in Range(ANALYSIS_TYPES) : TypeAt(i, d)

\* the name is <subject>_<case>_<domain>.json, domain a single-token type
C1_Form ==
    /\ conv_state # "todo"
    /\ EndsWith(filename, DOT_JSON)
    /\ Len(StemTokens) = 3
    /\ StemTokens[3] \in SingleTokenTypes

\* C1 as stated: every <subject>_<case>_<domain>.json with a single-token
\* known domain is parsed to exactly (subject, case, domain), whatever the
\* subject and case tokens are
C1_Original ==
    C1_Form => conv_parsed = <<StemTokens[1], StemTokens[2], StemTokens[3]>>

\* C1 amended: such a name is parsed to exactly (subject, case, domain) when
\* it holds no auxiliary fragment, its case token is not the repeat-run
\* marker B and no token holds ".json"; with a fragment or the marker the
\* result is None
C1_Amended ==
    C1_Form =>
        IF HasFragment \/ StemTokens[2] = <<"B">>
        THEN conv_parsed = None
        ELSE ~TokenHasExt =>
                conv_parsed = <<StemTokens[1], StemTokens[2], StemTokens[3]>>

\* a case token that is itself a known domain is parsed as the case
C1_Witness ==
    /\ C1_Form
    /\ StemTokens[2] = kolb
    /\ conv_parsed = <<StemTokens[1], kolb, StemTokens[3]>>

\* multi-token type d starts at index i >= 2 and no type matches at an index
\* of 2..i-1: the leftmost valid match
C2_Form(i, d) ==
    /\ conv_state # "todo"
    /\ EndsWith(filename, DOT_JSON)
    /\ d \in MultiTokenTypes
    /\ i >= 2
    /\ TypeAt(i, d)
    /\ \A j \in 2..(i - 1) : ~AnyTypeAt(j)

\* C2 as stated: the multi-token domain at the leftmost valid index is
\* returned with the tokens before it as case_id, also when a case token
\* is itself a known domain (names that are rejected anyway, or that go on
\* after the domain, are left out of the statement)
C2_Original ==
    \A i \in 2..Len(StemTokens), d \in MultiTokenTypes :
        (/\ C2_Form(i, d)
         /\ i + Len(Split(d, "_")) = Len(StemTokens)
         /\ ~HasFragment /\ ~HasMarker /\ ~TokenHasExt)
        => conv_parsed = <<StemTokens[1], Join(SubSeq(StemTokens, 2, i), US), d>>

\* C2 amended: for a name that is not rejected (no auxiliary fragment, no
\* repeat-run marker), has no ".json" inside a token and ends with the
\* domain's tokens, that result is returned when no known domain matches at
\* index 1 or the domain itself starts at index 2; when a known domain
\* matches at index 1 and the domain starts later, the result is the
\* fallback (token 1 as case_id, all later tokens joined as domain)
C2_Amended ==
    \A i \in 2..Len(StemTokens), d \in MultiTokenTypes :
        (/\ C2_Form(i, d)
         /\ i + Len(Split(d, "_")) = Len(StemTokens)
         /\ ~HasFragment /\ ~HasMarker /\ ~TokenHasExt)
        => IF i = 2 \/ ~AnyTypeAt(1)
           THEN conv_parsed =
                    <<StemTokens[1], Join(SubSeq(StemTokens, 2, i), US), d>>
           ELSE conv_parsed =
                    <<StemTokens[1], StemTokens[2],
                      Join(SubSeq(StemTokens, 3, Len(StemTokens)), US)>>

\* a case token that overlaps the domain name in part: a_01_speech_speech_act
C2_Witness ==
    /\ C2_Form(3, speech_act)
    /\ StemTokens[3] = <<"s","p","e","e","c","h">>
    /\ conv_parsed = <<StemTokens[1], Join(SubSeq(StemTokens, 2, 3), US), speech_act>>

\* C3: parse_filename never raises; it returns None when the name lacks the
\* .json extension, holds an auxiliary fragment or has fewer than 3 tokens;
\* every other name without the repeat-run marker gives a triple
C3_Theorem ==
    conv_state # "todo" =>
        /\ conv_state = "done"
        /\ conv_parsed = None \/ IsTriple(conv_parsed)
        /\ (~EndsWith(filename, DOT_JSON) \/ HasFragment \/ Len(StemTokens) < 3)
              => conv_parsed = None
        /\ (EndsWith(filename, DOT_JSON) /\ ~HasFragment /\ Len(StemTokens) >= 3
              /\ ~HasMarker) => IsTriple(conv_parsed)

\* a name with the extension and no fragment, but two tokens only
C3_Witness ==
    /\ conv_state = "done"
    /\ EndsWith(filename, DOT_JSON) /\ ~HasFragment
    /\ Len(StemTokens) = 2
    /\ conv_parsed = None

\* the marker token B is the token at index j >= 2, right before a known
\* domain that ends the name
C4_Form(j) ==
    /\ EndsWith(filename, DOT_JSON)
    /\ j >= 2 /\ j < Len(StemTokens)
    /\ StemTokens[j + 1] = <<"B">>
    /\ Join(SubSeq(StemTokens, j + 2, Len(StemTokens)), US) \in Range(ANALYSIS_TYPES)

C4_Key(j) == <<StemTokens[1], Join(SubSeq(StemTokens, 2, j + 1), US)>>

C4_Domain(j) == Join(SubSeq(StemTokens, j + 2, Len(StemTokens)), US)

C4_Converter ==
    conv_state # "todo" =>
        /\ conv_parsed = None
        /\ sermons = NoSermons /\ processed = 0 /\ skipped = 1

C4_Checker(j) ==
    chk_done =>
        /\ chk_parsed = <<C4_Key(j)[1], C4_Key(j)[2], C4_Domain(j)>>
        /\ existing_files = (C4_Key(j) :> {C4_Domain(j)})

\* C4 as stated: every file with the marker before its domain adds no
\* record to the export, and the checker counts the domain as present for
\* the case <case>_B (names the checker rejects as auxiliary files are left
\* out of the statement)
C4_Original ==
    \A j \in 2..Len(StemTokens) :
        (C4_Form(j) /\ ~HasFragment /\ ~TokenHasExt)
            => C4_Converter /\ C4_Checker(j)

\* C4 amended: the file adds no record to the export; the checker counts
\* the domain as present for the case <case>_B when the name holds no
\* auxiliary fragment, no ".json" inside a token and no known domain among
\* the tokens before the marker
C4_Amended ==
    \A j \in 2..Len(StemTokens) :
        C4_Form(j) =>
            /\ C4_Converter
            /\ (~HasFragment /\ ~TokenHasExt /\ \A k \in 1..(j - 1) : ~AnyTypeAt(k))
                  => C4_Checker(j)

\* a_01_B_kolb.json, handled by both programs
C4_Witness ==
    /\ C4_Form(2)
    /\ conv_state = "done" /\ chk_done
    /\ sermons = NoSermons /\ skipped = 1
    /\ existing_files = (<<StemTokens[1], <<"0","1","_","B">> >> :> {kolb})

---------------------------------------------------------------------------
(* serialize_value, called on one value *)

SerChars == {"a", NL, CR, "\""}

StringsUpTo(n) == UNION {[1..k -> SerChars] : k \in 0..n}

SerScalars(n) ==
    {JNull, JBool(TRUE), JBool(FALSE), JInt(0), JInt(7), JInt(0 - 12), JInt(105),
     JFloat(15, 2), JFloat(7, 1), JFloat(0 - 1, 2)}
    \cup {JStr(s) : s \in StringsUpTo(n)}

SerLists == {JList(l) : l \in UNION {[1..k -> SerScalars(MaxItemLen)] : k \in 0..2}}

SerDicts ==
    {EmptyDict}
    \cup {JDict(<< <<"naam", x>> >>) : x \in SerScalars(MaxItemLen)}
    \cup {JDict(<< <<"naam", x>>, <<"lijst", JList(<<y>>)>> >>) :
             x \in {JNull, JInt(7)}, y \in SerScalars(MaxItemLen)}

SerInputs == SerScalars(MaxStrLen) \cup SerLists \cup SerDicts

SerializeValue ==
    /\ phase = "serialize"
    /\ ~ser_done
    /\ cell' = serialize_value(value)
    /\ ser_done' = TRUE
    /\ UNCHANGED <<phase, value, fileVars, extVars>>
    /\ UNCHANGED laterVars

InitSerialize ==
    /\ phase = "serialize"
    /\ value \in SerInputs
    /\ cell = <<>>
    /\ ser_done = FALSE
    /\ filename = <<>>
    /\ content = Loaded(EmptyDict)
    /\ sermons = NoSermons
    /\ processed = 0
    /\ skipped = 0
    /\ conv_state = "todo"
    /\ conv_parsed = None
    /\ existing_files = NoSermons
    /\ chk_done = FALSE
    /\ chk_parsed = None
    /\ payload = EmptyDict
    /\ cur_type = <<>>
    /\ puts = 0
    /\ last_slot = 0
    /\ extracted = NotExtracted
    /\ sermon = <<>>
    /\ row = NoRow
    /\ written = NoRow
    /\ analyses_done = {}
    /\ LaterIdle

NextSerialize == SerializeValue

SpecSerialize == InitSerialize /\ [][NextSerialize]_vars

---------------------------------------------------------------------------
(* extract_analysis_data, called on one analysis.  The decoded JSON object
   is built field by field, at most MaxPuts fields, before the call. *)

\* value with the field at path set to x, the dicts on the way made as needed
RECURSIVE SetPath(_, _, _)
SetPath(v, path, x) ==
    IF path = <<>> THEN x
    ELSE LET key == Head(path)
         IN  IF HasKey(v.o, key)
             THEN JDict([i \in 1..Len(v.o) |->
                          IF v.o[i][1] = key
                          THEN <<key, SetPath(v.o[i][2], Tail(path), x)>>
                          ELSE v.o[i]])
             ELSE JDict(Append(v.o, <<key, SetPath(EmptyDict, Tail(path), x)>>))

\* the field at path can be set: what lies above it is absent or a dict
RECURSIVE CanSet(_, _)
CanSet(v, path) ==
    IF path = <<>> THEN TRUE
    ELSE IF ~IsDict(v) THEN FALSE
    ELSE IF ~HasKey(v.o, Head(path)) THEN TRUE
    ELSE Len(path) > 1 /\ CanSet(ValueOf(v.o, Head(path)), Tail(path))

S(path, kind) == [path |-> path, kind |-> kind]

\* the fields the model fills in, per type: metadata, the dict of the
\* sub-components, one sub-component, two sub-scores and the aggregate score
Slots(analysis_type) ==
    CASE analysis_type = aristoteles ->
           << S(<<"metadata">>, "meta"),
              S(<<"aristotelian_modes_analysis">>, "container"),
              S(<<"aristotelian_modes_analysis", "logos">>, "item"),
              S(<<"aristotelian_modes_analysis", "logos", "score">>, "leaf"),
              S(<<"aristotelian_modes_analysis", "pathos", "score">>, "leaf"),
              S(<<"overall_picture", "overall_rhetorical_score">>, "agg") >>
      [] analysis_type = dekker ->
           << S(<<"metadata">>, "meta"),
              S(<<"analysis_per_criterion">>, "container"),
              S(<<"analysis_per_criterion", "criterion_1_specific_bible_passage">>, "item"),
              S(<<"analysis_per_criterion", "criterion_1_specific_bible_passage",
                  "score_1_to_10">>, "leaf"),
              S(<<"analysis_per_criterion", "criterion_2_concrete_concrete",
                  "score_1_to_10">>, "leaf"),
              S(<<"overall_dekker_analysis", "average_score">>, "agg") >>
      [] analysis_type = kolb ->
           << S(<<"metadata">>, "meta"),
              S(<<"kolb_phases_analysis">>, "container"),
              S(<<"kolb_phases_analysis", "phase_1_concrete_experience">>, "item"),
              S(<<"kolb_phases_analysis", "phase_1_concrete_experience", "score">>, "leaf"),
              S(<<"kolb_phases_analysis", "phase_2_reflective_observation", "score">>, "leaf"),
              S(<<"overall_picture", "overall_kolb_score">>, "agg") >>
      [] analysis_type = schulz_von_thun ->
           << S(<<"metadata">>, "meta"),
              S(<<"schulz_von_thun_analysis">>, "container"),
              S(<<"schulz_von_thun_analysis", "factual_content_blue">>, "item"),
              S(<<"schulz_von_thun_analysis", "factual_content_blue", "score">>, "leaf"),
              S(<<"schulz_von_thun_analysis", "self_revelation_green", "score">>, "leaf"),
              S(<<"overall_picture", "overall_communication_score">>, "agg") >>
      [] analysis_type = esthetiek ->
           << S(<<"metadata">>, "meta"),
              S(<<"domain_a_poetics_of_language">>, "container"),
              S(<<"domain_a_poetics_of_language", "criterion_a1_imagery">>, "item"),
              S(<<"domain_a_poetics_of_language", "criterion_a1_imagery", "score">>, "leaf"),
              S(<<"domain_a_poetics_of_language", "average_score_language">>, "leaf"),
              S(<<"overall_aesthetics", "overall_aesthetic_score">>, "agg") >>
      [] analysis_type = transactional ->
           << S(<<"metadata">>, "meta"),
              S(<<"ego_positions_scan">>, "container"),
              S(<<"ego_positions_scan", "adult">>, "item"),
              S(<<"ego_positions_scan", "adult", "score">>, "leaf"),
              S(<<"ego_positions_scan", "parent", "healthy_care_NP", "score">>, "leaf"),
              S(<<"conclusion_and_recommendation", "psychological_health_score">>, "agg"),
              S(<<"drama_triangle_analysis", "preacher_roles">>, "roles") >>
      [] analysis_type = metaphor ->
           << S(<<"metadata">>, "meta"),
              S(<<"diagnostische_evaluatie">>, "container"),
              S(<<"diagnostische_evaluatie", "coherentie_analyse">>, "item"),
              S(<<"diagnostische_evaluatie", "coherentie_analyse", "overall_coherentie">>,
                "label"),
              S(<<"primaire_analyse", "dominante_domeinen">>, "list"),
              S(<<"appendices", "woord_frequentie_analyse">>, "freq") >>
      [] analysis_type = speech_act ->
           << S(<<"metadata">>, "meta"),
              S(<<"drievoudige_structuur_analyse">>, "container"),
              S(<<"drievoudige_structuur_analyse", "illocutie">>, "item"),
              S(<<"drievoudige_structuur_analyse", "illocutie", "helderheid_score">>, "leaf"),
              S(<<"werkwoord_analyse", "assertieven", "frequentie">>, "leaf"),
              S(<<"diagnostische_evaluatie", "gebeuren_score">>, "agg") >>
      [] analysis_type = narrative ->
           << S(<<"metadata">>, "meta"),
              S(<<"diagnostische_evaluatie">>, "container"),
              S(<<"diagnostische_evaluatie", "narratieve_coherentie">>, "item"),
              S(<<"diagnostische_evaluatie", "narratieve_coherentie", "coherentie_score">>,
                "leaf"),
              S(<<"grammaticale_analyse", "subject_check", "rutledge_score">>, "leaf"),
              S(<<"actantiele_analyse", "primair_narratief_programma", "subject",
                  "frequentie_score">>, "agg") >>
      [] OTHER -> << S(<<"metadata">>, "meta") >>

Seven_NL == JStr(<<"7", NL>>)

\* the values a field of each kind takes
SlotValues(kind) ==
    CASE kind = "meta"      -> {JNull, JList(<<>>), EmptyDict,
                                JDict(<< <<"model", JStr(<<"m", CR>>)>> >>)}
      [] kind = "container" -> {JNull, JInt(7), Seven_NL, JList(<<JInt(7)>>)}
      [] kind = "item"      -> {JNull, Seven_NL, JList(<<>>), EmptyDict}
      [] kind = "leaf"      -> {JInt(7), JInt(4), Seven_NL, JNull, JStr(<<"x">>)}
      [] kind = "agg"       -> {JInt(9), JNull, JStr(<<>>), Seven_NL, JInt(0)}
      [] kind = "label"     -> {JStr(KeyText["MIXED"]), Seven_NL, JList(<<>>), JNull}
      [] kind = "list"      -> {JList(<<>>), JList(<<JStr(<<"a", NL>>)>>), JNull, Seven_NL}
      [] kind = "freq"      -> {EmptyDict, JDict(<< <<"woord", JInt(3)>> >>), JNull, JInt(9)}
      [] kind = "roles"     -> {JNull, Seven_NL, EmptyDict,
                                JDict(<< <<"rescuer", JStr(<<"a", NL>>)>> >>)}

\* a type outside ANALYSIS_TYPES, as the fallback of parse_filename gives
unknown_type == <<"B","_","k","o","l","b">>

\* one more field of the JSON object, before the call
Put ==
    /\ phase = "extract"
    /\ extracted = NotExtracted
    /\ puts < MaxPuts
    /\ \E i \in (last_slot + 1)..Len(Slots(cur_type)) :
         LET slot == Slots(cur_type)[i]
         IN  /\ CanSet(payload, slot.path)
             /\ \E x \in SlotValues(slot.kind) :
                  payload' = SetPath(payload, slot.path, x)
             /\ last_slot' = i
    /\ puts' = puts + 1
    /\ UNCHANGED <<phase, cur_type, extracted, sermon, row, written, analyses_done>>
    /\ UNCHANGED <<fileVars, serVars>>
    /\ UNCHANGED laterVars

\* the call extract_analysis_data(data, analysis_type)
Extract ==
    /\ phase = "extract"
    /\ extracted = NotExtracted
    /\ extracted' = extract_analysis_data(payload, cur_type)
    /\ UNCHANGED <<phase, payload, cur_type, puts, last_slot, sermon, row, written,
                   analyses_done>>
    /\ UNCHANGED <<fileVars, serVars>>
    /\ UNCHANGED laterVars

InitExtract ==
    /\ phase = "extract"
    /\ cur_type \in Range(ANALYSIS_TYPES) \cup {unknown_type}
    /\ payload = EmptyDict
    /\ puts = 0
    /\ last_slot = 0
    /\ extracted = NotExtracted
    /\ sermon = <<>>
    /\ row = NoRow
    /\ written = NoRow
    /\ analyses_done = {}
    /\ value = JNull
    /\ cell = <<>>
    /\ ser_done = FALSE
    /\ filename = <<>>
    /\ content = Loaded(EmptyDict)
    /\ sermons = NoSermons
    /\ processed = 0
    /\ skipped = 0
    /\ conv_state = "todo"
    /\ conv_parsed = None
    /\ existing_files = NoSermons
    /\ chk_done = FALSE
    /\ chk_parsed = None
    /\ LaterIdle

NextExtract == Put \/ Extract

SpecExtract == InitExtract /\ [][NextExtract]_vars

---------------------------------------------------------------------------
(* create_tsv, building the row of one sermon from its analyses *)

\* lines 742-746: the row before any analysis is merged
FirstRow(theologian, sermon_id) ==
    <<"theologian">> :> JStr(theologian) @@
    <<"sermon_id">>  :> JStr(sermon_id) @@
    <<"sermon_key">> :> JStr(theologian \o US \o sermon_id)

\* the sermons of the model
SermonKeys == { <<kolb, <<"0","1">> >>, << <<"x">>, <<"0","1","_","B">> >> }

\* the JSON objects of the model's analyses
RowPayloads ==
    { EmptyDict,
      JDict(<< <<"metadata", JDict(<< <<"model", JStr(<<"m","1">>)>> >>)>> >>),
      JDict(<< <<"metadata", JDict(<< <<"theologian", JStr(<<"y">>)>>,
                                      <<"model", JStr(<<"m","2">>)>> >>)>> >>) }

\* lines 749-752, one turn of the loop: an analysis of the sermon is
\* extracted and row.update(extracted) merges it
UpdateRow ==
    /\ phase = "row"
    /\ extracted.k # "raise"
    /\ Cardinality(analyses_done) < MaxAnalyses
    /\ \E t \in (Range(ANALYSIS_TYPES) \cup {unknown_type}) \ analyses_done :
       \E data \in RowPayloads :
         /\ cur_type' = t
         /\ payload' = data
         /\ extracted' = extract_analysis_data(data, t)
         /\ analyses_done' = analyses_done \cup {t}
         /\ IF extracted'.k = "raise"
            THEN UNCHANGED <<row, written>>
            ELSE /\ row' = [c \in DOMAIN row \cup DOMAIN extracted'.result |->
                              IF c \in DOMAIN extracted'.result
                              THEN extracted'.result[c] ELSE row[c]]
                 /\ written' = [c \in DOMAIN row \cup DOMAIN extracted'.result |->
                                  (IF c \in DOMAIN row THEN written[c] ELSE {})
                                  \cup (IF c \in DOMAIN extracted'.result THEN {t} ELSE {})]
    /\ UNCHANGED <<phase, puts, last_slot, sermon>>
    /\ UNCHANGED <<fileVars, serVars>>
    /\ UNCHANGED laterVars

InitRow ==
    /\ phase = "row"
    /\ sermon \in SermonKeys
    /\ row = FirstRow(sermon[1], sermon[2])
    /\ written = [c \in DOMAIN row |-> {}]
    /\ analyses_done = {}
    /\ cur_type = <<>>
    /\ payload = EmptyDict
    /\ puts = 0
    /\ last_slot = 0
    /\ extracted = NotExtracted
    /\ value = JNull
    /\ cell = <<>>
    /\ ser_done = FALSE
    /\ filename = <<>>
    /\ content = Loaded(EmptyDict)
    /\ sermons = NoSermons
    /\ processed = 0
    /\ skipped = 0
    /\ conv_state = "todo"
    /\ conv_parsed = None
    /\ existing_files = NoSermons
    /\ chk_done = FALSE
    /\ chk_parsed = None
    /\ LaterIdle

NextRow == UpdateRow

SpecRow == InitRow /\ [][NextRow]_vars

---------------------------------------------------------------------------
(* Claims about serialize_value *)

\* the string s with every newline made a space and every carriage return
\* made r (a sequence: <<SP>> for a space, <<>> for nothing)
RECURSIVE Cleaned(_, _)
Cleaned(s, r) ==
    IF s = <<>> THEN <<>>
    ELSE (IF Head(s) = NL THEN <<SP>> ELSE IF Head(s) = CR THEN r ELSE <<Head(s)>>)
         \o Cleaned(Tail(s), r)

\* the number a decimal text of digits stands for
RECURSIVE DecimalValue(_)
DecimalValue(s) ==
    IF s = <<>> THEN 0
    ELSE 10 * DecimalValue(SubSeq(s, 1, Len(s) - 1))
         + (CHOOSE d \in 0..9 : DigitChar(d) = s[Len(s)])

IsDigits(s) == s # <<>> /\ \A i \in 1..Len(s) : \E d \in 0..9 : s[i] = DigitChar(d)

\* the text s is the decimal string of the int n
IsDecimalOf(s, n) ==
    LET mag == IF n < 0 THEN Tail(s) ELSE s
    IN  /\ s # <<>>
        /\ n < 0 => Head(s) = "-"
        /\ IsDigits(mag)
        /\ Len(mag) > 1 => Head(mag) # "0"
        /\ DecimalValue(mag) = (IF n < 0 THEN 0 - n ELSE n)

\* the text s is <whole>.<digit>, the float f to one decimal
IsDecimalOfFloat(s, f) ==
    \E k \in 1..Len(s) :
        /\ s[k] = "."
        /\ Len(s) = k + 1
        /\ LET neg   == f.num < 0
               whole == SubSeq(s, IF neg THEN 2 ELSE 1, k - 1)
               frac  == SubSeq(s, k + 1, k + 1)
           IN  /\ neg => Head(s) = "-"
               /\ IsDigits(whole) /\ IsDigits(frac)
               /\ (DecimalValue(whole) * 10 + DecimalValue(frac)) * f.den
                    = 10 * (IF neg THEN 0 - f.num ELSE f.num)

C5_Common ==
    /\ value.t = "null" => cell = <<>>
    /\ value.t = "bool" =>
          cell = (IF value.b THEN <<"T","R","U","E">> ELSE <<"F","A","L","S","E">>)
    /\ value.t = "int" => IsDecimalOf(cell, value.n)
    /\ value.t = "float" => IsDecimalOfFloat(cell, value)
    /\ value.t \in {"list", "dict"} =>
          /\ cell = JsonDumps(value)
          /\ \A i \in 1..Len(cell) : cell[i] \notin {NL, CR}

\* C5 as stated: null gives "", a bool TRUE or FALSE, a number its decimal
\* string, a list or dict its JSON text, and in a string every newline and
\* every carriage return becomes exactly one space
C5_Original ==
    ser_done =>
        /\ C5_Common
        /\ value.t = "str" => cell = Cleaned(value.s, <<SP>>)

\* C5 amended: as stated, except that a carriage return is removed, not
\* made a space (only a newline becomes one space); the JSON text of a list
\* or dict holds newlines and carriage returns as escapes, never as such
C5_Amended ==
    ser_done =>
        /\ C5_Common
        /\ value.t = "str" => cell = Cleaned(value.s, <<>>)

\* a string with a carriage return and a newline, serialized
C5_Witness ==
    /\ ser_done
    /\ value = JStr(<<"a", CR, NL>>)
    /\ cell = <<"a", SP>>

---------------------------------------------------------------------------
(* Claims about extract_analysis_data *)

IsKnown(t) == t \in Range(ANALYSIS_TYPES)

Returned == extracted.k = "ok"

IsText(x, chars) == x.t = "str" /\ x.s = chars

Last(col) == col[Len(col)]

\* the field of v at path: Val(x), or Skip when it is absent or the path
\* runs through a value that is no dict
RECURSIVE At(_, _)
At(v, path) ==
    IF path = <<>> THEN Val(v)
    ELSE IF IsDict(v) /\ HasKey(v.o, Head(path))
    THEN At(ValueOf(v.o, Head(path)), Tail(path))
    ELSE Skip

\* the type the code expects of a value of each kind of field
RightType(kind, v) ==
    CASE kind \in {"meta", "container", "item", "roles", "freq"} -> IsDict(v)
      [] kind \in {"leaf", "agg"} -> v.t = "int"
      [] kind = "label" -> v.t = "str"
      [] kind = "list"  -> IsList(v)

\* keys may be absent, but no field holds a value of the wrong type
WellTyped ==
    \A i \in 1..Len(Slots(cur_type)) :
        LET a == At(payload, Slots(cur_type)[i].path)
        IN  a.k = "val" => RightType(Slots(cur_type)[i].kind, a.v)

RulesOf(t) ==
    CASE t = aristoteles     -> aristoteles_rules
      [] t = dekker          -> dekker_rules
      [] t = kolb            -> kolb_rules
      [] t = schulz_von_thun -> schulz_von_thun_rules
      [] t = esthetiek       -> esthetiek_rules
      [] t = transactional   -> transactional_rules
      [] t = metaphor        -> metaphor_rules
      [] t = speech_act      -> speech_act_rules
      [] t = narrative       -> narrative_rules

\* the field a rule reads, as a path of keys
FieldPath(rule) == [i \in 1..Len(rule.path) |-> rule.path[i][2]] \o <<rule.key>>

\* the columns emitted for a field that is absent
AbsentColumns ==
    {RulesOf(cur_type)[i].col : i \in
        {j \in 1..Len(RulesOf(cur_type)) :
            /\ At(payload, FieldPath(RulesOf(cur_type)[j])).k = "skip"
            /\ RulesOf(cur_type)[j].col \in DOMAIN extracted.result}}

\* the dekker criterion scores of the JSON object
CriterionScores ==
    {i \in {4, 5} : cur_type = dekker /\ At(payload, Slots(dekker)[i].path).k = "val"}

\* the last segment of the columns of the fields that hold lists
ListFields ==
    {"alternatieve_domeinen", "coherentie_verbeteringen",
     "consequences_of_imbalance", "deictic_shifts", "detected_games",
     "dominante_domeinen", "dominante_werkwoorden", "entailment_checks",
     "figuren", "improvement_points", "improvement_points_top_3",
     "incoherentie_punten", "indicatoren_genade", "indicatoren_moralisme",
     "metafoor_inventaris", "quotes", "recommendations_for_next_sermon",
     "revitalisatie_suggesties", "risicos", "sterke_punten", "sterktes",
     "strengths", "strengths_top_3", "sub_worlds", "succesvolle_blending",
     "versterkte_schemas", "verstoorde_schemas", "volledige_metafoor_lijst",
     "voorbeelden", "weaknesses", "werkwoorden", "zwakke_punten"}

\* C6 as stated: when keys are absent and no value has the wrong type, the
\* call raises nothing and every column it emits for an absent field holds
\* the empty string
C6_Original ==
    (extracted.k # "none" /\ IsKnown(cur_type) /\ WellTyped) =>
        /\ Returned
        /\ \A col \in AbsentColumns : IsText(extracted.result[col], <<>>)

\* C6 amended: the call raises nothing and every column it emits for an
\* absent field holds the serialized default of the field: "[]" for a list
\* field, "{}" for metaphor.woord_frequentie, the empty string for every
\* other field, except that dekker.overall.average_score holds a number when
\* criterion scores are present
C6_Amended ==
    (extracted.k # "none" /\ IsKnown(cur_type) /\ WellTyped) =>
        /\ Returned
        /\ \A col \in AbsentColumns :
             LET x == extracted.result[col]
             IN  IF col = <<"dekker", "overall", "average_score">> /\ CriterionScores # {}
                 THEN x.t = "float"
                 ELSE /\ \/ IsText(x, <<>>)
                         \/ IsText(x, <<"[", "]">>)
                         \/ IsText(x, <<"{", "}">>)
                      /\ IsText(x, <<"{", "}">>) <=> col = <<"metaphor", "woord_frequentie">>
                      /\ IsText(x, <<"[", "]">>) <=> Last(col) \in ListFields
                      /\ Last(col) \in {"score", "analysis", "summary"} => IsText(x, <<>>)
        /\ \A col \in DOMAIN extracted.result :
             (Len(col) > 3 \/ (col[1] = "dekker" /\ col[2] # "overall")) =>
                LET x == extracted.result[col]
                IN  /\ Last(col) = "quotes" => IsText(x, <<"[", "]">>)
                    /\ Last(col) \in {"analysis", "findings", "improvement_point"}
                         => IsText(x, <<>>)
                    /\ Last(col) = "score" => (IsText(x, <<>>) \/ x.t = "int")

\* a sub-component with no field in it: its score is "" and its quotes "[]"
C6_Witness ==
    /\ cur_type = aristoteles
    /\ payload = JDict(<< <<"aristotelian_modes_analysis",
                            JDict(<< <<"logos", EmptyDict>> >>)>> >>)
    /\ Returned
    /\ IsText(extracted.result[<<"aristoteles", "logos", "score">>], <<>>)
    /\ IsText(extracted.result[<<"aristoteles", "logos", "quotes">>], <<"[", "]">>)
    /\ IsText(extracted.result[<<"aristoteles", "overall", "summary">>], <<>>)

\* C7 as stated: whatever non-object value sits where an object is
\* expected, metadata included, the call raises nothing
C7_Original ==
    IsKnown(cur_type) => extracted.k # "raise"

NoLineBreak(chars) == \A i \in 1..Len(chars) : chars[i] \notin {NL, CR}

\* C8 as stated: every value of the returned mapping, the score columns
\* included, is text without a newline or a carriage return (a number,
\* which the TSV writer prints in digits, is let through here)
C8_Original ==
    (Returned /\ IsKnown(cur_type)) =>
        \A col \in DOMAIN extracted.result :
            LET x == extracted.result[col]
            IN  \/ x.t \in {"int", "float"}
                \/ x.t = "str" /\ NoLineBreak(x.s)

\* the types C10 names, with the column of the aggregate score, the field it
\* is read from and the fields of the two sub-scores the model fills in
WithAggregate == {aristoteles, dekker, kolb, schulz_von_thun, esthetiek, transactional}

AggregateColumn(t) ==
    CASE t = aristoteles     -> <<"aristoteles", "overall", "overall_rhetorical_score">>
      [] t = dekker          -> <<"dekker", "overall", "average_score">>
      [] t = kolb            -> <<"kolb", "overall", "overall_kolb_score">>
      [] t = schulz_von_thun -> <<"schulz", "overall", "overall_communication_score">>
      [] t = esthetiek       -> <<"aesthetics", "overall", "overall_aesthetic_score">>
      [] t = transactional   -> <<"transactional", "overall", "psychological_health_score">>

AggregateField(t) == At(payload, Slots(t)[6].path)

AggregateMissing(t) ==
    \/ AggregateField(t).k = "skip"
    \/ AggregateField(t).v.t = "null"
    \/ IsText(AggregateField(t).v, <<>>)

\* the sub-scores present in the JSON object
SubScores(t) == {i \in {4, 5} : At(payload, Slots(t)[i].path).k = "val"}

SubScore(t, i) == At(payload, Slots(t)[i].path).v

AllNumbers(t) == \A i \in SubScores(t) : SubScore(t, i).t = "int"

RECURSIVE SumOf(_, _)
SumOf(t, idx) ==
    IF idx = {} THEN 0
    ELSE LET i == CHOOSE j \in idx : TRUE IN SubScore(t, i).n + SumOf(t, idx \ {i})

\* x is the arithmetic mean of the sub-scores
IsMean(x, t) ==
    /\ x.t = "float"
    /\ x.num * Cardinality(SubScores(t)) = SumOf(t, SubScores(t)) * x.den

\* C10 as stated: for each of the six types, with the aggregate score
\* missing and a sub-score present, the aggregate column holds the mean of
\* the sub-scores
C10_Original ==
    (Returned /\ cur_type \in WithAggregate /\ AggregateMissing(cur_type)
       /\ SubScores(cur_type) # {} /\ AllNumbers(cur_type)) =>
        IsMean(extracted.result[AggregateColumn(cur_type)], cur_type)

\* C10 amended: only dekker has the fallback: with average_score absent,
\* null or empty and the criterion scores present all numbers, the column
\* holds their mean; for the other five types a missing aggregate score
\* gives an empty column (or null, when the JSON says null)
C10_Amended ==
    (Returned /\ cur_type \in WithAggregate /\ AggregateMissing(cur_type)) =>
        LET x == extracted.result[AggregateColumn(cur_type)]
        IN  IF cur_type = dekker
            THEN /\ (SubScores(dekker) # {} /\ AllNumbers(dekker)) => IsMean(x, dekker)
                 /\ SubScores(dekker) = {} => (IsText(x, <<>>) \/ x.t = "null")
            ELSE IsText(x, <<>>) \/ x.t = "null"

\* two criterion scores, 7 and 4, and no average_score: the column holds 5.5
C10_Witness ==
    /\ cur_type = dekker
    /\ Returned
    /\ AggregateField(dekker).k = "skip"
    /\ SubScores(dekker) = {4, 5}
    /\ SubScore(dekker, 4) = JInt(7) /\ SubScore(dekker, 5) = JInt(4)
    /\ extracted.result[<<"dekker", "overall", "average_score">>].t = "float"
    /\ extracted.result[<<"dekker", "overall", "average_score">>].num * 2
         = 11 * extracted.result[<<"dekker", "overall", "average_score">>].den

---------------------------------------------------------------------------
(* Claims about the columns of a row *)

FixedColumns == {<<"theologian">>, <<"sermon_id">>, <<"sermon_key">>}

\* the three leading columns hold what create_tsv put there
FixedKept ==
    /\ FixedColumns \subseteq DOMAIN row
    /\ row[<<"theologian">>] = JStr(sermon[1])
    /\ row[<<"sermon_id">>] = JStr(sermon[2])
    /\ row[<<"sermon_key">>] = JStr(sermon[1] \o US \o sermon[2])

\* C9 as stated: no column, a metadata.* column included, is written by two
\* types; the name of every column a type writes begins with the name of the
\* type; the three leading columns are never overwritten
C9_Original ==
    phase = "row" =>
        /\ FixedKept
        /\ \A col \in DOMAIN row \ FixedColumns :
             /\ Cardinality(written[col]) <= 1
             /\ \A t \in written[col] : IsKnown(t) => KeyText[col[1]] = t

\* the first segment of the columns a type writes
ColumnPrefix(t) ==
    IF t = schulz_von_thun THEN "schulz"
    ELSE IF t = esthetiek THEN "aesthetics"
    ELSE Name(t)

\* C9 amended: the three leading columns are never overwritten; a column
\* outside metadata.* is written by one known type only and begins with
\* that type's prefix: its name, but schulz for schulz_von_thun and
\* aesthetics for esthetiek; the metadata.* columns are shared by all types
C9_Amended ==
    phase = "row" =>
        /\ FixedKept
        /\ \A col \in DOMAIN row \ FixedColumns :
             /\ Len(col) >= 2
             /\ \/ col[1] = "metadata"
                \/ /\ Cardinality(written[col]) = 1
                   /\ \A t \in written[col] : IsKnown(t) /\ col[1] = ColumnPrefix(t)

\* two analyses with metadata merged: the later one's model is in the row,
\* and a metadata key named theologian left the leading column alone
C9_Witness ==
    /\ phase = "row"
    /\ Cardinality(analyses_done) = 2
    /\ <<"metadata", "model">> \in DOMAIN row
    /\ Cardinality(written[<<"metadata", "model">>]) = 2
    /\ Returned
    /\ <<"metadata", "theologian">> \in DOMAIN extracted.result
    /\ row[<<"metadata", "model">>] = extracted.result[<<"metadata", "model">>]
    /\ row[<<"theologian">>] = JStr(sermon[1])
    /\ \E col \in DOMAIN row : col[1] = "schulz"

---------------------------------------------------------------------------
(* Python's order on str, and sorted() *)

\* the printable ASCII characters from code point 32 to 95, and from 97
\* to 126
Ascii32 ==
    <<
       " ", "!", "\"", "#", "$", "%", "&", "'", "(", ")", "*", "+", ",", "-", ".", "/",
       "0", "1", "2", "3", "4", "5", "6", "7", "8", "9", ":", ";", "<", "=", ">", "?",
       "@", "A", "B", "C", "D", "E", "F", "G", "H", "I", "J", "K", "L", "M", "N", "O",
       "P", "Q", "R", "S", "T", "U", "V", "W", "X", "Y", "Z", "[", "\\", "]", "^", "_"
    >>

Ascii97 ==
    <<
       "a", "b", "c", "d", "e", "f", "g", "h", "i", "j", "k", "l", "m", "n", "o", "p",
       "q", "r", "s", "t", "u", "v", "w", "x", "y", "z", "{", "|", "}", "~"
    >>

\* ord(c)
Ord(c) ==
    IF c = "\t" THEN 9
    ELSE IF c = NL THEN 10
    ELSE IF c = CR THEN 13
    ELSE IF c \in Range(Ascii32) THEN 31 + (CHOOSE i \in 1..Len(Ascii32) : Ascii32[i] = c)
    ELSE 96 + (CHOOSE i \in 1..Len(Ascii97) : Ascii97[i] = c)

\* a < b of two str: by code point, a proper prefix first
RECURSIVE LessText(_, _)
LessText(a, b) ==
    IF b = <<>> THEN FALSE
    ELSE IF a = <<>> THEN TRUE
    ELSE IF Head(a) # Head(b) THEN Ord(Head(a)) < Ord(Head(b))
    ELSE LessText(Tail(a), Tail(b))

\* a < b of two (theologian, sermon_id) tuples
LessKey(a, b) ==
    IF a[1] # b[1] THEN LessText(a[1], b[1]) ELSE LessText(a[2], b[2])

\* the text of every segment of a column name
SegmentText ==
    KeyText @@
    "aanbeveling" :> <<"a","a","n","b","e","v","e","l","i","n","g">> @@
    "aantal" :> <<"a","a","n","t","a","l">> @@
    "aanwezig" :> <<"a","a","n","w","e","z","i","g">> @@
    "aard" :> <<"a","a","r","d">> @@
    "absence_of_games_analysis" :> <<"a","b","s","e","n","c","e","_","o","f","_","g","a","m","e","s","_","a","n","a","l","y","s","i","s">> @@
    "abstract_conceptualization" :> <<"a","b","s","t","r","a","c","t","_","c","o","n","c","e","p","t","u","a","l","i","z","a","t","i","o","n">> @@
    "active_experimentation" :> <<"a","c","t","i","v","e","_","e","x","p","e","r","i","m","e","n","t","a","t","i","o","n">> @@
    "adressering" :> <<"a","d","r","e","s","s","e","r","i","n","g">> @@
    "adult" :> <<"a","d","u","l","t">> @@
    "alternatieve_domeinen" :> <<"a","l","t","e","r","n","a","t","i","e","v","e","_","d","o","m","e","i","n","e","n">> @@
    "analysis" :> <<"a","n","a","l","y","s","i","s">> @@
    "anti_kitsch_score" :> <<"a","n","t","i","_","k","i","t","s","c","h","_","s","c","o","r","e">> @@
    "appeal_aspect" :> <<"a","p","p","e","a","l","_","a","s","p","e","c","t">> @@
    "assertieven" :> <<"a","s","s","e","r","t","i","e","v","e","n">> @@
    "audience_analysis" :> <<"a","u","d","i","e","n","c","e","_","a","n","a","l","y","s","i","s">> @@
    "audit_samenvatting" :> <<"a","u","d","i","t","_","s","a","m","e","n","v","a","t","t","i","n","g">> @@
    "authenticity" :> <<"a","u","t","h","e","n","t","i","c","i","t","y">> @@
    "average_score" :> <<"a","v","e","r","a","g","e","_","s","c","o","r","e">> @@
    "balance" :> <<"b","a","l","a","n","c","e">> @@
    "balance_score" :> <<"b","a","l","a","n","c","e","_","s","c","o","r","e">> @@
    "beoogd_effect" :> <<"b","e","o","o","g","d","_","e","f","f","e","c","t">> @@
    "beoordeling" :> <<"b","e","o","o","r","d","e","l","i","n","g">> @@
    "beschrijving" :> <<"b","e","s","c","h","r","i","j","v","i","n","g">> @@
    "beweging" :> <<"b","e","w","e","g","i","n","g">> @@
    "child" :> <<"c","h","i","l","d">> @@
    "classificatie" :> <<"c","l","a","s","s","i","f","i","c","a","t","i","e">> @@
    "coherentie" :> <<"c","o","h","e","r","e","n","t","i","e">> @@
    "coherentie_verbeteringen" :> <<"c","o","h","e","r","e","n","t","i","e","_","v","e","r","b","e","t","e","r","i","n","g","e","n">> @@
    "commissieven" :> <<"c","o","m","m","i","s","s","i","e","v","e","n">> @@
    "communicative_purity_score" :> <<"c","o","m","m","u","n","i","c","a","t","i","v","e","_","p","u","r","i","t","y","_","s","c","o","r","e">> @@
    "conclusion" :> <<"c","o","n","c","l","u","s","i","o","n">> @@
    "concrete_experience" :> <<"c","o","n","c","r","e","t","e","_","e","x","p","e","r","i","e","n","c","e">> @@
    "congregation_position" :> <<"c","o","n","g","r","e","g","a","t","i","o","n","_","p","o","s","i","t","i","o","n">> @@
    "congruence" :> <<"c","o","n","g","r","u","e","n","c","e">> @@
    "congruence_judgment" :> <<"c","o","n","g","r","u","e","n","c","e","_","j","u","d","g","m","e","n","t">> @@
    "consequences_of_imbalance" :> <<"c","o","n","s","e","q","u","e","n","c","e","s","_","o","f","_","i","m","b","a","l","a","n","c","e">> @@
    "const_perf" :> <<"c","o","n","s","t","_","p","e","r","f">> @@
    "constatief_percentage" :> <<"c","o","n","s","t","a","t","i","e","f","_","p","e","r","c","e","n","t","a","g","e">> @@
    "declaratieven" :> <<"d","e","c","l","a","r","a","t","i","e","v","e","n">> @@
    "deficit_aanwezig" :> <<"d","e","f","i","c","i","t","_","a","a","n","w","e","z","i","g">> @@
    "deficit_ernst" :> <<"d","e","f","i","c","i","t","_","e","r","n","s","t">> @@
    "deictic_shifts" :> <<"d","e","i","c","t","i","c","_","s","h","i","f","t","s">> @@
    "derde_persoon" :> <<"d","e","r","d","e","_","p","e","r","s","o","o","n">> @@
    "detected_games" :> <<"d","e","t","e","c","t","e","d","_","g","a","m","e","s">> @@
    "diagnose" :> <<"d","i","a","g","n","o","s","e">> @@
    "directieven" :> <<"d","i","r","e","c","t","i","e","v","e","n">> @@
    "disruptions" :> <<"d","i","s","r","u","p","t","i","o","n","s">> @@
    "dominant_mode" :> <<"d","o","m","i","n","a","n","t","_","m","o","d","e">> @@
    "dominant_side" :> <<"d","o","m","i","n","a","n","t","_","s","i","d","e">> @@
    "dominante_domeinen" :> <<"d","o","m","i","n","a","n","t","e","_","d","o","m","e","i","n","e","n">> @@
    "dominante_modaliteit" :> <<"d","o","m","i","n","a","n","t","e","_","m","o","d","a","l","i","t","e","i","t">> @@
    "dominante_werkwoorden" :> <<"d","o","m","i","n","a","n","t","e","_","w","e","r","k","w","o","o","r","d","e","n">> @@
    "drama" :> <<"d","r","a","m","a">> @@
    "dramaturgy" :> <<"d","r","a","m","a","t","u","r","g","y">> @@
    "eerste_persoon" :> <<"e","e","r","s","t","e","_","p","e","r","s","o","o","n">> @@
    "effect" :> <<"e","f","f","e","c","t">> @@
    "effectiviteit" :> <<"e","f","f","e","c","t","i","v","i","t","e","i","t">> @@
    "emotional_tone" :> <<"e","m","o","t","i","o","n","a","l","_","t","o","n","e">> @@
    "entailment_checks" :> <<"e","n","t","a","i","l","m","e","n","t","_","c","h","e","c","k","s">> @@
    "ernst" :> <<"e","r","n","s","t">> @@
    "escape_possibilities" :> <<"e","s","c","a","p","e","_","p","o","s","s","i","b","i","l","i","t","i","e","s">> @@
    "exegetische_kwaliteit" :> <<"e","x","e","g","e","t","i","s","c","h","e","_","k","w","a","l","i","t","e","i","t">> @@
    "exemplarisme" :> <<"e","x","e","m","p","l","a","r","i","s","m","e">> @@
    "expressieven" :> <<"e","x","p","r","e","s","s","i","e","v","e","n">> @@
    "factual_content" :> <<"f","a","c","t","u","a","l","_","c","o","n","t","e","n","t">> @@
    "figuren" :> <<"f","i","g","u","r","e","n">> @@
    "findings" :> <<"f","i","n","d","i","n","g","s">> @@
    "foutief_aanwezig" :> <<"f","o","u","t","i","e","f","_","a","a","n","w","e","z","i","g">> @@
    "free_FC" :> <<"f","r","e","e","_","F","C">> @@
    "freedom_AC" :> <<"f","r","e","e","d","o","m","_","A","C">> @@
    "freedom_CP" :> <<"f","r","e","e","d","o","m","_","C","P">> @@
    "frequentie" :> <<"f","r","e","q","u","e","n","t","i","e">> @@
    "frequentie_score" :> <<"f","r","e","q","u","e","n","t","i","e","_","s","c","o","r","e">> @@
    "games" :> <<"g","a","m","e","s">> @@
    "gebeuren_score" :> <<"g","e","b","e","u","r","e","n","_","s","c","o","r","e">> @@
    "geest_rol" :> <<"g","e","e","s","t","_","r","o","l">> @@
    "general_recommendation" :> <<"g","e","n","e","r","a","l","_","r","e","c","o","m","m","e","n","d","a","t","i","o","n">> @@
    "god_als_spreker" :> <<"g","o","d","_","a","l","s","_","s","p","r","e","k","e","r">> @@
    "grammaticaal" :> <<"g","r","a","m","m","a","t","i","c","a","a","l">> @@
    "healing_disruption" :> <<"h","e","a","l","i","n","g","_","d","i","s","r","u","p","t","i","o","n">> @@
    "helderheid_score" :> <<"h","e","l","d","e","r","h","e","i","d","_","s","c","o","r","e">> @@
    "helper" :> <<"h","e","l","p","e","r">> @@
    "herpositionering_nodig" :> <<"h","e","r","p","o","s","i","t","i","o","n","e","r","i","n","g","_","n","o","d","i","g">> @@
    "homiletical_manifestations" :> <<"h","o","m","i","l","e","t","i","c","a","l","_","m","a","n","i","f","e","s","t","a","t","i","o","n","s">> @@
    "hoop_structuur" :> <<"h","o","o","p","_","s","t","r","u","c","t","u","u","r">> @@
    "identificatie" :> <<"i","d","e","n","t","i","f","i","c","a","t","i","e">> @@
    "illocutie" :> <<"i","l","l","o","c","u","t","i","e">> @@
    "improvement_point" :> <<"i","m","p","r","o","v","e","m","e","n","t","_","p","o","i","n","t">> @@
    "improvement_points" :> <<"i","m","p","r","o","v","e","m","e","n","t","_","p","o","i","n","t","s">> @@
    "improvement_points_top_3" :> <<"i","m","p","r","o","v","e","m","e","n","t","_","p","o","i","n","t","s","_","t","o","p","_","3">> @@
    "incoherentie_punten" :> <<"i","n","c","o","h","e","r","e","n","t","i","e","_","p","u","n","t","e","n">> @@
    "indicatoren_genade" :> <<"i","n","d","i","c","a","t","o","r","e","n","_","g","e","n","a","d","e">> @@
    "indicatoren_moralisme" :> <<"i","n","d","i","c","a","t","o","r","e","n","_","m","o","r","a","l","i","s","m","e">> @@
    "integrality" :> <<"i","n","t","e","g","r","a","l","i","t","y">> @@
    "interpretatie" :> <<"i","n","t","e","r","p","r","e","t","a","t","i","e">> @@
    "kitsch" :> <<"k","i","t","s","c","h">> @@
    "kwaliteit" :> <<"k","w","a","l","i","t","e","i","t">> @@
    "learning_style" :> <<"l","e","a","r","n","i","n","g","_","s","t","y","l","e">> @@
    "liturgische_aansluiting" :> <<"l","i","t","u","r","g","i","s","c","h","e","_","a","a","n","s","l","u","i","t","i","n","g">> @@
    "locutie" :> <<"l","o","c","u","t","i","e">> @@
    "menselijke_rol" :> <<"m","e","n","s","e","l","i","j","k","e","_","r","o","l">> @@
    "met" :> <<"m","e","t">> @@
    "metafoor_inventaris" :> <<"m","e","t","a","f","o","o","r","_","i","n","v","e","n","t","a","r","i","s">> @@
    "modal" :> <<"m","o","d","a","l">> @@
    "model" :> <<"m","o","d","e","l">> @@
    "notities" :> <<"n","o","t","i","t","i","e","s">> @@
    "nurturing_NP" :> <<"n","u","r","t","u","r","i","n","g","_","N","P">> @@
    "object" :> <<"o","b","j","e","c","t">> @@
    "omvang_procent" :> <<"o","m","v","a","n","g","_","p","r","o","c","e","n","t">> @@
    "ontvanger" :> <<"o","n","t","v","a","n","g","e","r">> @@
    "overall" :> <<"o","v","e","r","a","l","l">> @@
    "overall_aesthetic_score" :> <<"o","v","e","r","a","l","l","_","a","e","s","t","h","e","t","i","c","_","s","c","o","r","e">> @@
    "overall_beoordeling" :> <<"o","v","e","r","a","l","l","_","b","e","o","o","r","d","e","l","i","n","g">> @@
    "overall_communication_score" :> <<"o","v","e","r","a","l","l","_","c","o","m","m","u","n","i","c","a","t","i","o","n","_","s","c","o","r","e">> @@
    "overall_kolb_score" :> <<"o","v","e","r","a","l","l","_","k","o","l","b","_","s","c","o","r","e">> @@
    "overall_rhetorical_score" :> <<"o","v","e","r","a","l","l","_","r","h","e","t","o","r","i","c","a","l","_","s","c","o","r","e">> @@
    "parent" :> <<"p","a","r","e","n","t">> @@
    "patroon" :> <<"p","a","t","r","o","o","n">> @@
    "perf_intensivering_nodig" :> <<"p","e","r","f","_","i","n","t","e","n","s","i","v","e","r","i","n","g","_","n","o","d","i","g">> @@
    "performatief_percentage" :> <<"p","e","r","f","o","r","m","a","t","i","e","f","_","p","e","r","c","e","n","t","a","g","e">> @@
    "perlocutie" :> <<"p","e","r","l","o","c","u","t","i","e">> @@
    "pneumatologisch_bewustzijn" :> <<"p","n","e","u","m","a","t","o","l","o","g","i","s","c","h","_","b","e","w","u","s","t","z","i","j","n">> @@
    "poetics" :> <<"p","o","e","t","i","c","s">> @@
    "positie_hoorder" :> <<"p","o","s","i","t","i","e","_","h","o","o","r","d","e","r">> @@
    "preacher_persecutor" :> <<"p","r","e","a","c","h","e","r","_","p","e","r","s","e","c","u","t","o","r">> @@
    "preacher_rescuer" :> <<"p","r","e","a","c","h","e","r","_","r","e","s","c","u","e","r">> @@
    "preacher_victim" :> <<"p","r","e","a","c","h","e","r","_","v","i","c","t","i","m">> @@
    "prediker_mandataris" :> <<"p","r","e","d","i","k","e","r","_","m","a","n","d","a","t","a","r","i","s">> @@
    "preek_als_genademiddel" :> <<"p","r","e","e","k","_","a","l","s","_","g","e","n","a","d","e","m","i","d","d","e","l">> @@
    "primair" :> <<"p","r","i","m","a","i","r">> @@
    "primaire" :> <<"p","r","i","m","a","i","r","e">> @@
    "primaire_kracht" :> <<"p","r","i","m","a","i","r","e","_","k","r","a","c","h","t">> @@
    "primaire_wereld" :> <<"p","r","i","m","a","i","r","e","_","w","e","r","e","l","d">> @@
    "primary_rhetorical_style" :> <<"p","r","i","m","a","r","y","_","r","h","e","t","o","r","i","c","a","l","_","s","t","y","l","e">> @@
    "primary_transaction_style" :> <<"p","r","i","m","a","r","y","_","t","r","a","n","s","a","c","t","i","o","n","_","s","t","y","l","e">> @@
    "procent" :> <<"p","r","o","c","e","n","t">> @@
    "psychological_health_score" :> <<"p","s","y","c","h","o","l","o","g","i","c","a","l","_","h","e","a","l","t","h","_","s","c","o","r","e">> @@
    "quotes" :> <<"q","u","o","t","e","s">> @@
    "ratio" :> <<"r","a","t","i","o">> @@
    "recommendation_for_balance" :> <<"r","e","c","o","m","m","e","n","d","a","t","i","o","n","_","f","o","r","_","b","a","l","a","n","c","e">> @@
    "recommendations_for_next_sermon" :> <<"r","e","c","o","m","m","e","n","d","a","t","i","o","n","s","_","f","o","r","_","n","e","x","t","_","s","e","r","m","o","n">> @@
    "reflective_observation" :> <<"r","e","f","l","e","c","t","i","v","e","_","o","b","s","e","r","v","a","t","i","o","n">> @@
    "relational_aspect" :> <<"r","e","l","a","t","i","o","n","a","l","_","a","s","p","e","c","t">> @@
    "resolutie" :> <<"r","e","s","o","l","u","t","i","e">> @@
    "revitalisatie_suggesties" :> <<"r","e","v","i","t","a","l","i","s","a","t","i","e","_","s","u","g","g","e","s","t","i","e","s">> @@
    "risicos" :> <<"r","i","s","i","c","o","s">> @@
    "rol" :> <<"r","o","l">> @@
    "rol_geest" :> <<"r","o","l","_","g","e","e","s","t">> @@
    "rol_god" :> <<"r","o","l","_","g","o","d">> @@
    "rutledge_score" :> <<"r","u","t","l","e","d","g","e","_","s","c","o","r","e">> @@
    "s1" :> <<"s","1">> @@
    "s2" :> <<"s","2">> @@
    "sacramenteel" :> <<"s","a","c","r","a","m","e","n","t","e","e","l">> @@
    "sacramenteel_aanwezig" :> <<"s","a","c","r","a","m","e","n","t","e","e","l","_","a","a","n","w","e","z","i","g">> @@
    "sacramenteel_kwaliteit" :> <<"s","a","c","r","a","m","e","n","t","e","e","l","_","k","w","a","l","i","t","e","i","t">> @@
    "sacramentele_kracht" :> <<"s","a","c","r","a","m","e","n","t","e","l","e","_","k","r","a","c","h","t">> @@
    "schema" :> <<"s","c","h","e","m","a">> @@
    "score" :> <<"s","c","o","r","e">> @@
    "secundair" :> <<"s","e","c","u","n","d","a","i","r">> @@
    "self_revelation" :> <<"s","e","l","f","_","r","e","v","e","l","a","t","i","o","n">> @@
    "semiotisch" :> <<"s","e","m","i","o","t","i","s","c","h">> @@
    "sermon_id" :> <<"s","e","r","m","o","n","_","i","d">> @@
    "sermon_key" :> <<"s","e","r","m","o","n","_","k","e","y">> @@
    "slotopmerking" :> <<"s","l","o","t","o","p","m","e","r","k","i","n","g">> @@
    "soteriologie_model" :> <<"s","o","t","e","r","i","o","l","o","g","i","e","_","m","o","d","e","l">> @@
    "space_for_grace" :> <<"s","p","a","c","e","_","f","o","r","_","g","r","a","c","e">> @@
    "space_score" :> <<"s","p","a","c","e","_","s","c","o","r","e">> @@
    "specific_diagnosis" :> <<"s","p","e","c","i","f","i","c","_","d","i","a","g","n","o","s","i","s">> @@
    "sterke_punten" :> <<"s","t","e","r","k","e","_","p","u","n","t","e","n">> @@
    "sterktes" :> <<"s","t","e","r","k","t","e","s">> @@
    "strengths" :> <<"s","t","r","e","n","g","t","h","s">> @@
    "strengths_top_3" :> <<"s","t","r","e","n","g","t","h","s","_","t","o","p","_","3">> @@
    "sub_worlds" :> <<"s","u","b","_","w","o","r","l","d","s">> @@
    "subject" :> <<"s","u","b","j","e","c","t">> @@
    "succesvolle_blending" :> <<"s","u","c","c","e","s","v","o","l","l","e","_","b","l","e","n","d","i","n","g">> @@
    "summary" :> <<"s","u","m","m","a","r","y">> @@
    "suppressed_mode" :> <<"s","u","p","p","r","e","s","s","e","d","_","m","o","d","e">> @@
    "surplus_aanwezig" :> <<"s","u","r","p","l","u","s","_","a","a","n","w","e","z","i","g">> @@
    "surplus_ernst" :> <<"s","u","r","p","l","u","s","_","e","r","n","s","t">> @@
    "tegenstander" :> <<"t","e","g","e","n","s","t","a","n","d","e","r">> @@
    "text_world" :> <<"t","e","x","t","_","w","o","r","l","d">> @@
    "theologian" :> <<"t","h","e","o","l","o","g","i","a","n">> @@
    "theologie" :> <<"t","h","e","o","l","o","g","i","e">> @@
    "toelichting" :> <<"t","o","e","l","i","c","h","t","i","n","g">> @@
    "toezegging" :> <<"t","o","e","z","e","g","g","i","n","g">> @@
    "transaction" :> <<"t","r","a","n","s","a","c","t","i","o","n">> @@
    "tweede_persoon" :> <<"t","w","e","e","d","e","_","p","e","r","s","o","o","n">> @@
    "ulterior_motives" :> <<"u","l","t","e","r","i","o","r","_","m","o","t","i","v","e","s">> @@
    "unieke_inzichten" :> <<"u","n","i","e","k","e","_","i","n","z","i","c","h","t","e","n">> @@
    "vergelijk" :> <<"v","e","r","g","e","l","i","j","k">> @@
    "verhouding" :> <<"v","e","r","h","o","u","d","i","n","g">> @@
    "verklaring" :> <<"v","e","r","k","l","a","r","i","n","g">> @@
    "versterkte_schemas" :> <<"v","e","r","s","t","e","r","k","t","e","_","s","c","h","e","m","a","s">> @@
    "verstoorde_schemas" :> <<"v","e","r","s","t","o","o","r","d","e","_","s","c","h","e","m","a","s">> @@
    "volledige_metafoor_lijst" :> <<"v","o","l","l","e","d","i","g","e","_","m","e","t","a","f","o","o","r","_","l","i","j","s","t">> @@
    "voorbeelden" :> <<"v","o","o","r","b","e","e","l","d","e","n">> @@
    "weaknesses" :> <<"w","e","a","k","n","e","s","s","e","s">> @@
    "werkwoord" :> <<"w","e","r","k","w","o","o","r","d">> @@
    "werkwoorden" :> <<"w","e","r","k","w","o","o","r","d","e","n">> @@
    "woord_frequentie" :> <<"w","o","o","r","d","_","f","r","e","q","u","e","n","t","i","e">> @@
    "zender" :> <<"z","e","n","d","e","r">> @@
    "zonde_aard" :> <<"z","o","n","d","e","_","a","a","r","d">> @@
    "zwakke_punten" :> <<"z","w","a","k","k","e","_","p","u","n","t","e","n">>

\* the column name as the code has it: the segments joined by "."
ColumnText(col) == Join([i \in 1..Len(col) |-> SegmentText[col[i]]], <<".">>)

\* the members of ranked, pairs of a thing and the number of things before
\* it, in the order of that number
InOrder(ranked) ==
    [i \in 1..Cardinality(ranked) |-> (CHOOSE p \in ranked : p[2] = i - 1)[1]]

\* sorted(cols) of a collection of distinct column names
sorted_columns(cols) ==
    Bind({<<c, ColumnText(c)>> : c \in cols}, LAMBDA texts :
    Bind({<<p[1], Cardinality({d \in texts : LessText(d[2], p[2])})>> : p \in texts},
         LAMBDA ranked : InOrder(ranked)))

\* sorted(sermons.items()): the keys of a dict are distinct, so the key
\* decides
sorted_items(sm) ==
    Bind({<<sm[i], Cardinality({j \in 1..Len(sm) : LessKey(sm[j][1], sm[i][1])})>> :
            i \in 1..Len(sm)},
         LAMBDA ranked : InOrder(ranked))

---------------------------------------------------------------------------
(* create_tsv.  sermons is a sequence of <<sermon_key, analyses>> and
   analyses a sequence of <<analysis_type, data>>, both in dict order. *)

\* the most sermons handed to create_tsv
MaxCases == 2

meta_columns == << <<"theologian">>, <<"sermon_id">>, <<"sermon_key">> >>

\* lines 720-723, for the analyses of one sermon: the keys of the
\* extracted mappings, or the exception extract_analysis_data raises
RECURSIVE analyses_columns(_)
analyses_columns(analyses) ==
    IF analyses = <<>> THEN Ok({})
    ELSE Bind(extract_analysis_data(analyses[1][2], analyses[1][1]), LAMBDA e :
            IF e.k = "raise" THEN e
            ELSE Bind(analyses_columns(Tail(analyses)), LAMBDA r :
                    IF r.k = "raise" THEN r ELSE Ok(DOMAIN e.result \cup r.a)))

\* a slip: the fixed columns sorted with the others
header_all_sorted(columns) ==
    sorted_columns(columns)

\* lines 726-728: all_columns_ordered
ordered_columns(columns) ==
    meta_columns \o sorted_columns(columns \ Range(meta_columns))

\* row.update(extracted)
Update(r, extr) ==
    [c \in DOMAIN r \cup DOMAIN extr |-> IF c \in DOMAIN extr THEN extr[c] ELSE r[c]]

\* lines 750-753: the row after the analyses of the sermon are merged into
\* it, or the exception
RECURSIVE merged_row(_, _)
merged_row(r, analyses) ==
    IF analyses = <<>> THEN Ok(r)
    ELSE Bind(extract_analysis_data(analyses[1][2], analyses[1][1]), LAMBDA e :
            IF e.k = "raise" THEN e
            ELSE merged_row(Update(r, e.result), Tail(analyses)))

\* the field the csv writer makes of a value: '' of None, a str as it is,
\* str() of a number or a bool (the model's rows hold no list or dict
\* outside serialize_value)
CellText(v) ==
    CASE v.t = "null" -> <<>>
      [] v.t = "str"  -> v.s
      [] v.t \in {"int", "float", "bool"} -> NumStr(v)

\* a slip: a column the row lacks is left out of the line
writerow_dropping(fieldnames, r) ==
    SelectSeq([i \in 1..Len(fieldnames) |->
                  IF fieldnames[i] \in DOMAIN r THEN CellText(r[fieldnames[i]]) ELSE <<"?">>],
              LAMBDA x : x # <<"?">>)

\* DictWriter.writerow with restval '' and extrasaction 'ignore': the
\* fields of the line, in the order of fieldnames
writerow(fieldnames, r) ==
    [i \in 1..Len(fieldnames) |->
        IF fieldnames[i] \in DOMAIN r THEN CellText(r[fieldnames[i]]) ELSE <<>>]

\* lines 719-723, one turn of the outer loop of the first pass
CollectColumns ==
    /\ phase = "tsv"
    /\ tsv_pc = "collect"
    /\ tsv_seen < Len(tsv_sermons)
    /\ \E r \in {analyses_columns(tsv_sermons[tsv_seen + 1][2])} :
         IF r.k = "raise"
         THEN /\ tsv_pc' = "raised"
              /\ UNCHANGED <<all_columns, tsv_seen>>
         ELSE /\ all_columns' = all_columns \cup r.a
              /\ tsv_seen' = tsv_seen + 1
              /\ UNCHANGED tsv_pc
    /\ UNCHANGED <<tsv_sermons, header, rows>>
    /\ UNCHANGED <<phase, fileVars, serVars, extVars>>
    /\ UNCHANGED tsvOthers

\* lines 725-738: the header
WriteHeader ==
    /\ phase = "tsv"
    /\ tsv_pc = "collect"
    /\ tsv_seen = Len(tsv_sermons)
    /\ header' = ordered_columns(all_columns)
    /\ tsv_pc' = "rows"
    /\ UNCHANGED <<tsv_sermons, all_columns, rows, tsv_seen>>
    /\ UNCHANGED <<phase, fileVars, serVars, extVars>>
    /\ UNCHANGED tsvOthers

\* lines 740-755, one turn of the loop: the row of the next sermon
WriteRow ==
    /\ phase = "tsv"
    /\ tsv_pc = "rows"
    /\ Len(rows) < Len(tsv_sermons)
    /\ \E item \in {sorted_items(tsv_sermons)[Len(rows) + 1]} :
       \E m \in {merged_row(FirstRow(item[1][1], item[1][2]), item[2])} :
         IF m.k = "raise"
         THEN /\ tsv_pc' = "raised"
              /\ UNCHANGED <<rows, sermon, row>>
         ELSE /\ sermon' = item[1]
              /\ row' = m.a
              /\ rows' = Append(rows, writerow(header, m.a))
              /\ tsv_pc' = IF Len(rows) + 1 = Len(tsv_sermons) THEN "done" ELSE "rows"
    /\ UNCHANGED <<tsv_sermons, all_columns, header, tsv_seen>>
    /\ UNCHANGED <<phase, fileVars, serVars>>
    /\ UNCHANGED <<payload, cur_type, puts, last_slot, extracted, written, analyses_done>>
    /\ UNCHANGED tsvOthers

\* the sermon keys of the model: "B" sorts before "a", and "10" before "9"
TsvKeys ==
    { << <<"a">>, <<"9">> >>, << <<"a">>, <<"1","0">> >>, << <<"B">>, <<"0","1">> >> }

\* the analyses of a sermon, in the model
TsvAnalyses ==
    { << <<dekker, JDict(<< <<"analysis_per_criterion",
                              JDict(<< <<"criterion_2_concrete_concrete",
                                         JDict(<< <<"score_1_to_10", JInt(7)>> >>)>> >>)>> >>)>> >>,
      << <<esthetiek, JDict(<< <<"metadata", JDict(<< <<"model", JStr(<<"m">>)>> >>)>>,
                               <<"domain_a_poetics_of_language",
                                 JDict(<< <<"criterion_a1_imagery",
                                            JDict(<< <<"score", JInt(8)>> >>)>> >>)>> >>)>>,
         <<dekker, EmptyDict>> >>,
      << <<unknown_type, JDict(<< <<"metadata",
                                    JDict(<< <<"theologian", JStr(<<"y">>)>> >>)>> >>)>> >>,
      << <<dekker, JDict(<< <<"metadata", JNull>> >>)>> >> }

\* what load_all_sermons can hand over: sermons with distinct keys
TsvInputs ==
    {sm \in UNION {[1..n -> TsvKeys \X TsvAnalyses] : n \in 1..MaxCases} :
        \A i, j \in 1..Len(sm) : i # j => sm[i][1] # sm[j][1]}

FilesIdle ==
    /\ filename = <<>>
    /\ content = Loaded(EmptyDict)
    /\ sermons = NoSermons
    /\ processed = 0
    /\ skipped = 0
    /\ conv_state = "todo"
    /\ conv_parsed = None
    /\ existing_files = NoSermons
    /\ chk_done = FALSE
    /\ chk_parsed = None

SerIdle ==
    /\ value = JNull
    /\ cell = <<>>
    /\ ser_done = FALSE

ExtIdle ==
    /\ payload = EmptyDict
    /\ cur_type = <<>>
    /\ puts = 0
    /\ last_slot = 0
    /\ extracted = NotExtracted
    /\ sermon = <<>>
    /\ row = NoRow
    /\ written = NoRow
    /\ analyses_done = {}

InitTsv ==
    /\ phase = "tsv"
    /\ tsv_sermons \in TsvInputs
    /\ all_columns = Range(meta_columns)
    /\ header = <<>>
    /\ rows = <<>>
    /\ tsv_pc = "collect"
    /\ tsv_seen = 0
    /\ FilesIdle
    /\ SerIdle
    /\ ExtIdle
    /\ ScoreIdle
    /\ StatIdle
    /\ LoadIdle
    /\ RunIdle

NextTsv == CollectColumns \/ WriteHeader \/ WriteRow

SpecTsv == InitTsv /\ [][NextTsv]_vars

---------------------------------------------------------------------------
(* Claims about create_tsv. *)

\* every column some analysis of some sermon yields, whatever the order the
\* sermons and their analyses are visited in
ObservedColumns(sm) ==
    UNION {UNION {DOMAIN extract_analysis_data(sm[i][2][j][2], sm[i][2][j][1]).result :
                    j \in 1..Len(sm[i][2])} : i \in 1..Len(sm)}

\* C11: the header create_tsv writes is the three fixed columns theologian,
\* sermon_id, sermon_key in that order, then every other observed column
\* exactly once in ascending lexicographic order of its name; its columns are
\* the fixed ones and the keys of all the extracted mappings, a set that does
\* not depend on the order the sermons are visited in.
C11_Theorem ==
    tsv_pc \in {"rows", "done"} =>
        /\ Len(header) >= 3
        /\ SubSeq(header, 1, 3) = meta_columns
        /\ \A i \in 4..Len(header) : header[i] \notin Range(meta_columns)
        /\ \A i, j \in 4..Len(header) :
              i < j => LessText(ColumnText(header[i]), ColumnText(header[j]))
        /\ Range(header) = Range(meta_columns) \cup ObservedColumns(tsv_sermons)

\* two sermons, the one visited first yielding a column that sorts after a
\* column of the second, and the header written
C11_Witness ==
    /\ tsv_pc = "done"
    /\ Len(tsv_sermons) = 2
    /\ Len(header) >= 6
    /\ \E c \in ObservedColumns(SubSeq(tsv_sermons, 1, 1)) :
       \E d \in ObservedColumns(SubSeq(tsv_sermons, 2, 2)) :
          LessText(ColumnText(d), ColumnText(c))

\* the columns the analyses of one sermon yield
SermonColumns(item) == ObservedColumns(<<item>>)

\* the sermon of tsv_sermons with the given key
SermonWithKey(key) ==
    CHOOSE item \in Range(tsv_sermons) : item[1] = key

\* the value of column c in the mapping of the analysis that yields it last
LastValue(item, c) ==
    Bind(Max({j \in 1..Len(item[2]) :
                c \in DOMAIN extract_analysis_data(item[2][j][2], item[2][j][1]).result}),
         LAMBDA j : extract_analysis_data(item[2][j][2], item[2][j][1]).result[c])

\* C12: create_tsv writes exactly one data row per loaded sermon, in
\* ascending (theologian, sermon_id) order; the sermon_key cell is the
\* theologian, "_" and the sermon id; every key of the merged mapping of a
\* sermon is a column of the header, and a column of the header the mapping
\* lacks is written as the empty string.
C12_Theorem ==
    tsv_pc \in {"rows", "done"} =>
        /\ tsv_pc = "done" => Len(rows) = Len(tsv_sermons)
        /\ Len(rows) <= Len(tsv_sermons)
        /\ \A i \in 1..Len(rows) :
              /\ Len(rows[i]) = Len(header)
              /\ <<rows[i][1], rows[i][2]>> \in {item[1] : item \in Range(tsv_sermons)}
              /\ rows[i][3] = rows[i][1] \o <<"_">> \o rows[i][2]
              /\ \A j \in 1..Len(rows) :
                    i < j => LessKey(<<rows[i][1], rows[i][2]>>, <<rows[j][1], rows[j][2]>>)
              /\ \A k \in 1..Len(tsv_sermons) :
                    LessKey(tsv_sermons[k][1], <<rows[i][1], rows[i][2]>>)
                        => \E j \in 1..(i - 1) : <<rows[j][1], rows[j][2]>> = tsv_sermons[k][1]
              /\ \E item \in {SermonWithKey(<<rows[i][1], rows[i][2]>>)} :
                    /\ SermonColumns(item) \subseteq Range(header)
                    /\ \A k \in 4..Len(header) :
                          rows[i][k] = IF header[k] \in SermonColumns(item)
                                       THEN CellText(LastValue(item, header[k]))
                                       ELSE <<>>

\* both rows written, of sermons handed over in descending order, the first
\* row with an empty cell under a column only the other sermon yields
C12_Witness ==
    /\ tsv_pc = "done"
    /\ Len(rows) = 2
    /\ LessKey(tsv_sermons[2][1], tsv_sermons[1][1])
    /\ \E k \in 4..Len(header) :
          /\ rows[1][k] = <<>>
          /\ rows[2][k] # <<>>
          /\ header[k] \notin SermonColumns(tsv_sermons[2])
          /\ header[k] \in SermonColumns(tsv_sermons[1])

---------------------------------------------------------------------------
(* calculate_stats of precompute_statistics.py and calculate_violin_data of
   violin_data_precompute.py.  A number is the fraction <<p, q>> in lowest
   terms, q > 0; the scores of a series are not negative. *)

\* the most values of a series
MaxSeries == 4

RECURSIVE GCD(_, _)
GCD(a, b) == IF b = 0 THEN a ELSE GCD(b, a % b)

Norm(r) ==
    Bind(GCD(IF r[1] < 0 THEN 0 - r[1] ELSE r[1], r[2]), LAMBDA g :
         <<r[1] \div g, r[2] \div g>>)

\* the number a score is: True is 1 and False is 0
Rat(v) ==
    CASE v.t = "int"   -> <<v.n, 1>>
      [] v.t = "bool"  -> <<IF v.b THEN 1 ELSE 0, 1>>
      [] v.t = "float" -> Norm(<<v.num, v.den>>)

RAdd(a, b) == Norm(<<a[1] * b[2] + b[1] * a[2], a[2] * b[2]>>)
RSub(a, b) == Norm(<<a[1] * b[2] - b[1] * a[2], a[2] * b[2]>>)
RMul(a, b) == Norm(<<a[1] * b[1], a[2] * b[2]>>)
RLess(a, b) == a[1] * b[2] < b[1] * a[2]

\* a float result
Float(r) == JFloat(r[1], r[2])

\* sum() of numbers
RECURSIVE RSum(_)
RSum(rs) == IF rs = <<>> THEN <<0, 1>> ELSE RAdd(Head(rs), RSum(Tail(rs)))

\* p / q to the nearest integer, a tie to the even one (p >= 0, q > 0)
HalfEven(p, q) ==
    Bind(p \div q, LAMBDA f :
         IF 2 * (p - f * q) < q THEN f
         ELSE IF 2 * (p - f * q) > q THEN f + 1
         ELSE IF f % 2 = 0 THEN f ELSE f + 1)

\* round(value, 2): an int or a bool gives an int, a float the float with
\* two decimals nearest to it (the ties of the model's numbers are exact in
\* binary, and go to the even neighbour)
Round2(v) ==
    CASE v.t = "int"   -> v
      [] v.t = "bool"  -> JInt(IF v.b THEN 1 ELSE 0)
      [] v.t = "float" -> JFloat(HalfEven(100 * v.num, v.den), 100)

\* round(math.sqrt(p / q), 2), in hundredths; the variance of scores in
\* [0, 10] is 25 at most
SqrtRound2(r) ==
    Bind(Max({0} \cup {h \in 1..510 : (2 * h - 1) * (2 * h - 1) * r[2] <= 40000 * r[1]}),
         LAMBDA h :
            IF h > 0 /\ (2 * h - 1) * (2 * h - 1) * r[2] = 40000 * r[1] /\ h % 2 = 1
            THEN h - 1 ELSE h)

\* a slip: the divisor of the sample standard deviation
variance_of_sample(rs, mean) ==
    RMul(RSum([i \in 1..Len(rs) |-> RMul(RSub(rs[i], mean), RSub(rs[i], mean))]),
         <<1, Len(rs) - 1>>)

\* line 195: sum((x - mean) ** 2 for x in values) / n
variance(rs, mean) ==
    RMul(RSum([i \in 1..Len(rs) |-> RMul(RSub(rs[i], mean), RSub(rs[i], mean))]),
         <<1, Len(rs)>>)

\* calculate_stats: None of an empty list
calculate_stats(values) ==
    IF values = <<>> THEN JNull
    ELSE Bind([i \in 1..Len(values) |-> Rat(values[i])], LAMBDA rs :
         Bind(RMul(RSum(rs), <<1, Len(rs)>>), LAMBDA mean :
              [mean   |-> Round2(Float(mean)),
               stdDev |-> IF Len(rs) > 1
                          THEN JFloat(SqrtRound2(variance(rs, mean)), 100)
                          ELSE JFloat(0, 1),
               count  |-> Len(rs)]))

\* a slip: the values summarised in the order they were handed over
values_as_given(values) == values

\* sorted(values): stable, by the numbers the values are
RECURSIVE sorted_values(_)
sorted_values(values) ==
    IF values = <<>> THEN <<>>
    ELSE Bind(CHOOSE i \in 1..Len(values) :
                 \A j \in 1..Len(values) :
                    \/ RLess(Rat(values[i]), Rat(values[j]))
                    \/ Rat(values[i]) = Rat(values[j]) /\ i <= j,
              LAMBDA i :
                 <<values[i]>> \o
                 sorted_values(SubSeq(values, 1, i - 1) \o SubSeq(values, i + 1, Len(values))))

\* statistics.median of sorted data
median(s) ==
    IF Len(s) % 2 = 1 THEN s[(Len(s) \div 2) + 1]
    ELSE Float(RMul(RAdd(Rat(s[Len(s) \div 2]), Rat(s[(Len(s) \div 2) + 1])), <<1, 2>>))

\* statistics.quantiles(data, n=4), the exclusive method: its cut point i
quantile(s, i) ==
    Bind(Max({1, Min({Len(s) - 1, (i * (Len(s) + 1)) \div 4})}), LAMBDA j :
    Bind(i * (Len(s) + 1) - j * 4, LAMBDA delta :
         Float(RMul(RAdd(RMul(Rat(s[j]), <<4 - delta, 1>>), RMul(Rat(s[j + 1]), <<delta, 1>>)),
                    <<1, 4>>))))

\* a slip: the quartiles of a series of two or three values interpolated
\* like those of a longer one
quartile_interpolated(s, i) ==
    IF Len(s) >= 2 THEN quantile(s, i) ELSE s[1]

\* lines 260-267: q1 (i = 1) and q3 (i = 3)
quartile(s, i) ==
    IF Len(s) >= 4 THEN quantile(s, i)
    ELSE IF Len(s) >= 2 THEN s[((i * Len(s)) \div 4) + 1]
    ELSE s[1]

\* calculate_violin_data: None of an empty list
calculate_violin_data(values) ==
    IF values = <<>> THEN JNull
    ELSE Bind(sorted_values(values), LAMBDA s :
         [values  |-> [i \in 1..Len(s) |-> Round2(s[i])],
          summary |-> [min    |-> Round2(s[1]),
                       max    |-> Round2(s[Len(s)]),
                       median |-> Round2(median(s)),
                       q1     |-> Round2(quartile(s, 1)),
                       q3     |-> Round2(quartile(s, 3)),
                       mean   |-> Round2(Float(RMul(RSum([i \in 1..Len(s) |-> Rat(s[i])]),
                                                     <<1, Len(s)>>)))],
          count   |-> Len(s)])

\* the scores of the model's series: ints, floats (7.5 and 7.125) and a
\* bool that add_score lets through
StatValues == {JInt(0), JInt(7), JInt(10), JFloat(15, 2), JFloat(57, 8), JBool(TRUE)}

\* the series of section 7 of the description of the aggregator
EXAMPLE_SERIES == <<JInt(2), JInt(4), JInt(4), JInt(4), JInt(5), JInt(5), JInt(7), JInt(9)>>

\* the series of the model.  A mean of five values can be a tie of round()
\* that is not exact in binary, which round() settles by the binary value:
\* the series of such a length hold no 7.125
StatSeries ==
    {s \in UNION {[1..n -> StatValues] : n \in 1..MaxSeries} :
        Len(s) % 5 = 0 => JFloat(57, 8) \notin Range(s)} \cup {EXAMPLE_SERIES}

NotCalculated == [k |-> "none"]

\* calculate_stats(values), called at line 235 of aggregate_scores
CalculateStats ==
    /\ phase = "stats"
    /\ st_stats = NotCalculated
    /\ st_stats' = calculate_stats(st_values)
    /\ UNCHANGED <<st_values, st_violin>>
    /\ UNCHANGED <<phase, fileVars, serVars, extVars, tsvVars, scoreVars, loadVars, runVars>>

\* calculate_violin_data(values), called at line 312 of aggregate_scores
CalculateViolin ==
    /\ phase = "stats"
    /\ st_violin = NotCalculated
    /\ st_violin' = calculate_violin_data(st_values)
    /\ UNCHANGED <<st_values, st_stats>>
    /\ UNCHANGED <<phase, fileVars, serVars, extVars, tsvVars, scoreVars, loadVars, runVars>>

InitStats ==
    /\ phase = "stats"
    /\ st_values \in StatSeries
    /\ st_stats = NotCalculated
    /\ st_violin = NotCalculated
    /\ FilesIdle
    /\ SerIdle
    /\ ExtIdle
    /\ TsvIdle
    /\ ScoreIdle
    /\ LoadIdle
    /\ RunIdle

NextStats == CalculateStats \/ CalculateViolin

SpecStats == InitStats /\ [][NextStats]_vars

---------------------------------------------------------------------------
(* extract_scores and aggregate_scores of precompute_statistics.py
   ("stats") and violin_data_precompute.py ("violin").  The two modules
   hold the same code but for the transactional branch and the
   concrete_concrete rule of the violin module. *)

\* the most items of all_data
MaxItems == 2

\* bool(value)
Truthy(v) ==
    CASE v.t = "null"  -> FALSE
      [] v.t = "bool"  -> v.b
      [] v.t = "int"   -> v.n # 0
      [] v.t = "float" -> v.num # 0
      [] v.t = "str"   -> v.s # <<>>
      [] v.t = "list"  -> v.l # <<>>
      [] v.t = "dict"  -> v.o # <<>>

\* isinstance(value, (int, float)) and 0 <= value <= 10: True is 1 and
\* False is 0
InRange(v) ==
    CASE v.t = "int"   -> 0 <= v.n /\ v.n <= 10
      [] v.t = "float" -> 0 <= v.num /\ v.num <= 10 * v.den
      [] v.t = "bool"  -> TRUE
      [] OTHER         -> FALSE

\* scores[key] = value, scores a dict as its pairs in insertion order
SetScore(scores, key, v) ==
    IF \E i \in 1..Len(scores) : scores[i][1] = key
    THEN [i \in 1..Len(scores) |-> IF scores[i][1] = key THEN <<key, v>> ELSE scores[i]]
    ELSE Append(scores, <<key, v>>)

add_score(scores, analysis_type, category, v) ==
    IF InRange(v) THEN SetScore(scores, analysis_type \o <<"_">> \o category, v)
    ELSE scores

\* "if x.get(a, {}).get(key): add_score(category, x[a][key])", at every
\* level of detail, at the detailed level or at the summary level only
Sc(path, key, category, when) ==
    [path |-> path, key |-> key, dflt |-> "none", category |-> category, when |-> when]

Applies(when, detailed) ==
    \/ when = "always"
    \/ when = "detailed" /\ detailed
    \/ when = "summary" /\ ~detailed

\* the rules in order, from the scores so far: the scores after them, or
\* the exception of a .get() on what is no dict
RECURSIVE run_score_rules(_, _, _, _, _)
run_score_rules(data, analysis_type, detailed, rules, scores) ==
    IF rules = <<>> THEN Ok(scores)
    ELSE IF ~Applies(Head(rules).when, detailed)
    THEN run_score_rules(data, analysis_type, detailed, Tail(rules), scores)
    ELSE Bind(FieldOf(data, Head(rules)), LAMBDA x :
            IF x.k = "raise" THEN x
            ELSE run_score_rules(data, analysis_type, detailed, Tail(rules),
                                 IF Truthy(x.v)
                                 THEN add_score(scores, analysis_type,
                                                Head(rules).category, x.v)
                                 ELSE scores))

aristoteles_score_rules ==
    <<
    Sc(<<G("aristotelian_modes_analysis"), G("logos")>>, "score", <<"L","o","g","o","s">>, "always"),
    Sc(<<G("aristotelian_modes_analysis"), G("pathos")>>, "score", <<"P","a","t","h","o","s">>, "always"),
    Sc(<<G("aristotelian_modes_analysis"), G("ethos")>>, "score", <<"E","t","h","o","s">>, "always"),
    Sc(<<G("overall_picture")>>, "overall_rhetorical_score", <<"O","v","e","r","a","l","l">>, "always"),
    Sc(<<G("rhetorical_balance_analysis")>>, "balance_score", <<"B","a","l","a","n","c","e"," ","S","c","o","r","e">>, "detailed")
    >>

kolb_score_rules ==
    <<
    Sc(<<G("kolb_phases_analysis"), G("phase_1_concrete_experience")>>, "score", <<"C","o","n","c","r","e","t","e"," ","E","x","p","e","r","i","e","n","c","e">>, "always"),
    Sc(<<G("kolb_phases_analysis"), G("phase_2_reflective_observation")>>, "score", <<"R","e","f","l","e","c","t","i","v","e"," ","O","b","s","e","r","v","a","t","i","o","n">>, "always"),
    Sc(<<G("kolb_phases_analysis"), G("phase_3_abstract_conceptualization")>>, "score", <<"A","b","s","t","r","a","c","t"," ","C","o","n","c","e","p","t","u","a","l","i","z","a","t","i","o","n">>, "always"),
    Sc(<<G("kolb_phases_analysis"), G("phase_4_active_experimentation")>>, "score", <<"A","c","t","i","v","e"," ","E","x","p","e","r","i","m","e","n","t","a","t","i","o","n">>, "always"),
    Sc(<<G("learning_styles_analysis"), G("dreamer")>>, "score", <<"D","r","e","a","m","e","r">>, "detailed"),
    Sc(<<G("learning_styles_analysis"), G("thinker")>>, "score", <<"T","h","i","n","k","e","r">>, "detailed"),
    Sc(<<G("learning_styles_analysis"), G("doer")>>, "score", <<"D","o","e","r">>, "detailed"),
    Sc(<<G("learning_styles_analysis"), G("decider")>>, "score", <<"D","e","c","i","d","e","r">>, "detailed"),
    Sc(<<G("learning_styles_analysis"), G("assimilating_style")>>, "score", <<"A","s","s","i","m","i","l","a","t","i","n","g">>, "detailed"),
    Sc(<<G("learning_styles_analysis"), G("converging_style")>>, "score", <<"C","o","n","v","e","r","g","i","n","g">>, "detailed"),
    Sc(<<G("learning_styles_analysis"), G("accommodating_style")>>, "score", <<"A","c","c","o","m","m","o","d","a","t","i","n","g">>, "detailed"),
    Sc(<<G("learning_styles_analysis"), G("diverging_style")>>, "score", <<"D","i","v","e","r","g","i","n","g">>, "detailed"),
    Sc(<<G("integrality_and_cycle"), G("cycle_completeness")>>, "score", <<"C","y","c","l","e"," ","C","o","m","p","l","e","t","e","n","e","s","s">>, "detailed"),
    Sc(<<G("integrality_and_cycle"), G("balance_between_phases")>>, "score", <<"B","a","l","a","n","c","e"," ","B","e","t","w","e","e","n"," ","P","h","a","s","e","s">>, "detailed"),
    Sc(<<G("integrality_and_cycle"), G("holistic_learning")>>, "score", <<"H","o","l","i","s","t","i","c"," ","L","e","a","r","n","i","n","g">>, "detailed"),
    Sc(<<G("overall_picture")>>, "overall_kolb_score", <<"O","v","e","r","a","l","l">>, "always")
    >>

schulz_von_thun_score_rules ==
    <<
    Sc(<<G("schulz_von_thun_analysis"), G("factual_content_blue")>>, "score", <<"F","a","c","t","u","a","l"," ","C","o","n","t","e","n","t">>, "always"),
    Sc(<<G("schulz_von_thun_analysis"), G("self_revelation_green")>>, "score", <<"S","e","l","f","-","R","e","v","e","l","a","t","i","o","n">>, "always"),
    Sc(<<G("schulz_von_thun_analysis"), G("relational_aspect_yellow")>>, "score", <<"R","e","l","a","t","i","o","n","a","l"," ","A","s","p","e","c","t">>, "always"),
    Sc(<<G("schulz_von_thun_analysis"), G("appeal_aspect_red")>>, "score", <<"A","p","p","e","a","l"," ","A","s","p","e","c","t">>, "always"),
    Sc(<<G("overall_picture")>>, "overall_communication_score", <<"O","v","e","r","a","l","l">>, "always")
    >>

esthetiek_score_rules ==
    <<
    Sc(<<G("kitsch_diagnosis")>>, "anti_kitsch_score", <<"A","n","t","i","-","K","i","t","s","c","h">>, "detailed"),
    Sc(<<G("space_for_grace_analysis")>>, "space_score", <<"S","p","a","c","e"," ","f","o","r"," ","G","r","a","c","e">>, "detailed"),
    Sc(<<G("domain_a_poetics_of_language")>>, "average_score_language", <<"P","o","e","t","i","c","s">>, "summary"),
    Sc(<<G("domain_b_dramaturgy_of_structure")>>, "average_score_structure", <<"D","r","a","m","a","t","u","r","g","y">>, "summary"),
    Sc(<<G("overall_aesthetics")>>, "overall_aesthetic_score", <<"O","v","e","r","a","l","l">>, "always")
    >>

transactional_score_rules ==
    <<
    Sc(<<G("ego_positions_scan"), G("parent"), G("freedom_from_critical_parent_CP")>>, "score", <<"F","r","e","e","d","o","m"," ","f","r","o","m"," ","C","r","i","t","i","c","a","l"," ","P","a","r","e","n","t">>, "always"),
    Sc(<<G("ego_positions_scan"), G("parent"), G("healthy_care_NP")>>, "score", <<"N","u","r","t","u","r","i","n","g"," ","P","a","r","e","n","t">>, "always"),
    Sc(<<G("ego_positions_scan"), G("adult")>>, "score", <<"A","d","u","l","t"," ","P","r","e","s","e","n","c","e">>, "always"),
    Sc(<<G("ego_positions_scan"), G("child"), G("freedom_from_adapted_child_AC")>>, "score", <<"F","r","e","e","d","o","m"," ","f","r","o","m"," ","A","d","a","p","t","e","d"," ","C","h","i","l","d">>, "always"),
    Sc(<<G("ego_positions_scan"), G("child"), G("free_child_FC")>>, "score", <<"F","r","e","e"," ","C","h","i","l","d">>, "always"),
    Sc(<<G("transaction_analysis")>>, "communicative_purity_score", <<"C","o","m","m","u","n","i","c","a","t","i","v","e"," ","P","u","r","i","t","y">>, "always"),
    Sc(<<G("conclusion_and_recommendation")>>, "psychological_health_score", <<"O","v","e","r","a","l","l">>, "always")
    >>


\* the text of the keys of the model's criteria
CriterionText ==
    KeyText @@
    "criterion_a12_sound_and_rhythm" :> <<"c","r","i","t","e","r","i","o","n","_","a","1","2","_","s","o","u","n","d","_","a","n","d","_","r","h","y","t","h","m">> @@
    "criterion_3_christ_central" :> <<"c","r","i","t","e","r","i","o","n","_","3","_","c","h","r","i","s","t","_","c","e","n","t","r","a","l">>

Lowers == <<"a","b","c","d","e","f","g","h","i","j","k","l","m","n","o","p","q","r","s","t","u","v","w","x","y","z">>
Uppers == <<"A","B","C","D","E","F","G","H","I","J","K","L","M","N","O","P","Q","R","S","T","U","V","W","X","Y","Z">>

IsLetter(c) == c \in Range(Lowers) \cup Range(Uppers)
Upper(c) == IF c \in Range(Lowers) THEN Uppers[CHOOSE i \in 1..26 : Lowers[i] = c] ELSE c
Lower(c) == IF c \in Range(Uppers) THEN Lowers[CHOOSE i \in 1..26 : Uppers[i] = c] ELSE c

\* str.title(): a letter after what is no letter in upper case, a letter
\* after a letter in lower case
Title(s) ==
    [i \in 1..Len(s) |-> IF i > 1 /\ IsLetter(s[i - 1]) THEN Lower(s[i]) ELSE Upper(s[i])]

\* str.isdigit()
IsDigitText(s) ==
    s # <<>> /\ \A i \in 1..Len(s) : \E d \in 0..9 : s[i] = DigitChar(d)

\* how many characters of s the pattern  pre \d+ _  matches at its start,
\* 0 when it does not match
MatchLen(s, pre) ==
    IF ~StartsWith(s, pre) THEN 0
    ELSE Bind(Max({k \in 0..(Len(s) - Len(pre)) :
                     \A i \in 1..k : IsDigitText(<<s[Len(pre) + i]>>)}),
              LAMBDA d : IF d >= 1 /\ Len(s) > Len(pre) + d /\ s[Len(pre) + d + 1] = "_"
                         THEN Len(pre) + d + 1 ELSE 0)

\* re.sub(pre + r'\d+_', '', s)
RECURSIVE ReSub(_, _)
ReSub(s, pre) ==
    IF s = <<>> THEN <<>>
    ELSE Bind(MatchLen(s, pre), LAMBDA n :
            IF n > 0 THEN ReSub(SubSeq(s, n + 1, Len(s)), pre)
            ELSE <<Head(s)>> \o ReSub(Tail(s), pre))

CRITERION == <<"c","r","i","t","e","r","i","o","n","_">>

\* the category of a criterion of the dekker branch: the violin module
\* first replaces concrete_concrete by concrete
dekker_category(module, key) ==
    Bind(IF module = "violin"
         THEN Replace(CriterionText[key],
                      <<"c","o","n","c","r","e","t","e","_","c","o","n","c","r","e","t","e">>,
                      <<"c","o","n","c","r","e","t","e">>)
         ELSE CriterionText[key], LAMBDA normalized :
    Bind(Replace(Replace(normalized, CRITERION, <<>>), <<"_">>, <<SP>>), LAMBDA name :
         IF IsDigitText(Split(name, SP)[1]) THEN <<"#">> \o name ELSE name))

\* the category of a criterion of domain a or b of the esthetiek branch
esthetiek_category(domain, key) ==
    Title(Replace(ReSub(CriterionText[key], CRITERION \o <<domain>>), <<"_">>, <<SP>>))

\* the loops over the criteria: kind is "dekker" (the score_1_to_10 of the
\* criterion is truthy), "a" or "b" (the score of the criterion is not None)
RECURSIVE criteria_loop(_, _, _, _, _)
criteria_loop(module, analysis_type, kind, pairs, scores) ==
    IF pairs = <<>> THEN scores
    ELSE Bind(Head(pairs), LAMBDA p :
         Bind(IF ~IsDict(p[2]) THEN Skip
              ELSE IF kind = "dekker"
              THEN Bind(Field(p[2], "score_1_to_10", "none"), LAMBDA x :
                        IF Truthy(x)
                        THEN Val(<<dekker_category(module, p[1]), x>>) ELSE Skip)
              ELSE Bind(Field(p[2], "score", "none"), LAMBDA x :
                        IF x.t # "null"
                        THEN Val(<<esthetiek_category(kind, p[1]), x>>) ELSE Skip),
              LAMBDA hit :
                criteria_loop(module, analysis_type, kind, Tail(pairs),
                              IF hit.k = "val"
                              THEN add_score(scores, analysis_type, hit.v[1], hit.v[2])
                              ELSE scores)))

\* "for key, value in data.get(field, {}).items(): ...": .items() of what is
\* no dict raises
criteria_of(module, data, analysis_type, kind, field, scores) ==
    Bind(Field(data, field, "dict"), LAMBDA criteria :
         IF ~IsDict(criteria) THEN Err("AttributeError")
         ELSE Ok(criteria_loop(module, analysis_type, kind, criteria.o, scores)))

\* extract_scores: the dict of scores as its pairs, or the exception
extract_scores(module, data, analysis_type, detailed) ==
    IF ~IsDict(data) THEN Ok(<<>>)
    ELSE IF analysis_type = aristoteles
    THEN run_score_rules(data, analysis_type, detailed, aristoteles_score_rules, <<>>)
    ELSE IF analysis_type = dekker
    THEN criteria_of(module, data, analysis_type, "dekker", "analysis_per_criterion", <<>>)
    ELSE IF analysis_type = kolb
    THEN run_score_rules(data, analysis_type, detailed, kolb_score_rules, <<>>)
    ELSE IF analysis_type = schulz_von_thun
    THEN run_score_rules(data, analysis_type, detailed, schulz_von_thun_score_rules, <<>>)
    ELSE IF analysis_type = esthetiek
    THEN (IF detailed
          THEN Bind(criteria_of(module, data, analysis_type, "a",
                                "domain_a_poetics_of_language", <<>>), LAMBDA a :
               IF a.k = "raise" THEN a
               ELSE Bind(criteria_of(module, data, analysis_type, "b",
                                     "domain_b_dramaturgy_of_structure", a.a), LAMBDA b :
                    IF b.k = "raise" THEN b
                    ELSE run_score_rules(data, analysis_type, detailed,
                                         esthetiek_score_rules, b.a)))
          ELSE run_score_rules(data, analysis_type, detailed, esthetiek_score_rules, <<>>))
    ELSE IF analysis_type = transactional /\ module = "violin"
    THEN run_score_rules(data, analysis_type, detailed, transactional_score_rules, <<>>)
    ELSE Ok(<<>>)

\* lines 226-227 (stats) and 303-304 (violin): every score of the item
\* appended to the series of its metric and the item's theologian
AppendScores(series, theologian, scores) ==
    [key \in DOMAIN series \cup {<<scores[i][1], theologian>> : i \in 1..Len(scores)} |->
        (IF key \in DOMAIN series THEN series[key] ELSE <<>>) \o
        (IF key[2] = theologian /\ \E i \in 1..Len(scores) : scores[i][1] = key[1]
         THEN <<scores[CHOOSE i \in 1..Len(scores) : scores[i][1] = key[1]][2]>>
         ELSE <<>>)]

NoSeries == [key \in {} |-> <<>>]

\* the items of all_data, in the model
ScoreItems ==
    {
      [theologian |-> <<"a">>, sermon |-> <<"0","1">>, analysis |-> aristoteles,
       data |-> JDict(<< <<"aristotelian_modes_analysis", JDict(<< <<"logos", JDict(<< <<"score", JInt(7)>> >>)>>, <<"pathos", JDict(<< <<"score", JInt(0)>> >>)>>, <<"ethos", JDict(<< <<"score", JBool(TRUE)>> >>)>> >>)>>, <<"overall_picture", JDict(<< <<"overall_rhetorical_score", JInt(11)>> >>)>>, <<"rhetorical_balance_analysis", JDict(<< <<"balance_score", JFloat(15, 2)>> >>)>> >>)],
      [theologian |-> <<"a">>, sermon |-> <<"0","1">>, analysis |-> aristoteles,
       data |-> JDict(<< <<"aristotelian_modes_analysis", JDict(<< <<"logos", JDict(<< <<"score", JStr(<<"7">>)>> >>)>>, <<"pathos", JDict(<< <<"score", JInt(10)>> >>)>>, <<"ethos", JDict(<< <<"score", JBool(FALSE)>> >>)>> >>)>>, <<"overall_picture", JDict(<< <<"overall_rhetorical_score", JFloat(0, 1)>> >>)>>, <<"rhetorical_balance_analysis", JDict(<< <<"balance_score", JInt(0 - 1)>> >>)>> >>)],
      [theologian |-> <<"b">>, sermon |-> <<"0","1">>, analysis |-> aristoteles,
       data |-> JDict(<< <<"aristotelian_modes_analysis", JDict(<< <<"logos", JDict(<< <<"score", JNull>> >>)>>, <<"pathos", JDict(<< <<"score", JStr(<<>>)>> >>)>>, <<"ethos", JDict(<< <<"score", JFloat(21, 2)>> >>)>> >>)>>, <<"overall_picture", JDict(<< <<"overall_rhetorical_score", JList(<<JInt(7)>>)>> >>)>>, <<"rhetorical_balance_analysis", JDict(<< <<"balance_score", JInt(7)>> >>)>> >>)],
      [theologian |-> <<"a">>, sermon |-> <<"0","1">>, analysis |-> dekker,
       data |-> JDict(<< <<"analysis_per_criterion", JDict(<< <<"criterion_1_specific_bible_passage", JDict(<< <<"score_1_to_10", JInt(7)>> >>)>>, <<"criterion_2_concrete_concrete", JDict(<< <<"score_1_to_10", JInt(0)>> >>)>>, <<"criterion_3_christ_central", JBool(TRUE)>> >>)>> >>)],
      [theologian |-> <<"a">>, sermon |-> <<"0","1">>, analysis |-> dekker,
       data |-> JDict(<< <<"analysis_per_criterion", JDict(<< <<"criterion_1_specific_bible_passage", JDict(<< <<"score_1_to_10", JStr(<<"7">>)>> >>)>>, <<"criterion_2_concrete_concrete", JDict(<< <<"score_1_to_10", JInt(10)>> >>)>>, <<"criterion_3_christ_central", JBool(FALSE)>> >>)>> >>)],
      [theologian |-> <<"b">>, sermon |-> <<"0","1">>, analysis |-> dekker,
       data |-> JDict(<< <<"analysis_per_criterion", JDict(<< <<"criterion_1_specific_bible_passage", JDict(<< <<"score_1_to_10", JNull>> >>)>>, <<"criterion_2_concrete_concrete", JDict(<< <<"score_1_to_10", JStr(<<>>)>> >>)>>, <<"criterion_3_christ_central", JFloat(21, 2)>> >>)>> >>)],
      [theologian |-> <<"a">>, sermon |-> <<"0","1">>, analysis |-> kolb,
       data |-> JDict(<< <<"kolb_phases_analysis", JDict(<< <<"phase_1_concrete_experience", JDict(<< <<"score", JInt(7)>> >>)>>, <<"phase_2_reflective_observation", JDict(<< <<"score", JInt(0)>> >>)>>, <<"phase_3_abstract_conceptualization", JDict(<< <<"score", JBool(TRUE)>> >>)>>, <<"phase_4_active_experimentation", JDict(<< <<"score", JInt(11)>> >>)>> >>)>>, <<"learning_styles_analysis", JDict(<< <<"dreamer", JDict(<< <<"score", JFloat(15, 2)>> >>)>>, <<"thinker", JDict(<< <<"score", JStr(<<"7">>)>> >>)>>, <<"doer", JDict(<< <<"score", JInt(10)>> >>)>>, <<"decider", JDict(<< <<"score", JBool(FALSE)>> >>)>>, <<"assimilating_style", JDict(<< <<"score", JFloat(0, 1)>> >>)>>, <<"converging_style", JDict(<< <<"score", JInt(0 - 1)>> >>)>>, <<"accommodating_style", JDict(<< <<"score", JNull>> >>)>>, <<"diverging_style", JDict(<< <<"score", JStr(<<>>)>> >>)>> >>)>>, <<"integrality_and_cycle", JDict(<< <<"cycle_completeness", JDict(<< <<"score", JFloat(21, 2)>> >>)>>, <<"balance_between_phases", JDict(<< <<"score", JList(<<JInt(7)>>)>> >>)>>, <<"holistic_learning", JDict(<< <<"score", JInt(7)>> >>)>> >>)>>, <<"overall_picture", JDict(<< <<"overall_kolb_score", JInt(0)>> >>)>> >>)],
      [theologian |-> <<"a">>, sermon |-> <<"0","1">>, analysis |-> kolb,
       data |-> JDict(<< <<"kolb_phases_analysis", JDict(<< <<"phase_1_concrete_experience", JDict(<< <<"score", JStr(<<"7">>)>> >>)>>, <<"phase_2_reflective_observation", JDict(<< <<"score", JInt(10)>> >>)>>, <<"phase_3_abstract_conceptualization", JDict(<< <<"score", JBool(FALSE)>> >>)>>, <<"phase_4_active_experimentation", JDict(<< <<"score", JFloat(0, 1)>> >>)>> >>)>>, <<"learning_styles_analysis", JDict(<< <<"dreamer", JDict(<< <<"score", JInt(0 - 1)>> >>)>>, <<"thinker", JDict(<< <<"score", JNull>> >>)>>, <<"doer", JDict(<< <<"score", JStr(<<>>)>> >>)>>, <<"decider", JDict(<< <<"score", JFloat(21, 2)>> >>)>>, <<"assimilating_style", JDict(<< <<"score", JList(<<JInt(7)>>)>> >>)>>, <<"converging_style", JDict(<< <<"score", JInt(7)>> >>)>>, <<"accommodating_style", JDict(<< <<"score", JInt(0)>> >>)>>, <<"diverging_style", JDict(<< <<"score", JBool(TRUE)>> >>)>> >>)>>, <<"integrality_and_cycle", JDict(<< <<"cycle_completeness", JDict(<< <<"score", JInt(11)>> >>)>>, <<"balance_between_phases", JDict(<< <<"score", JFloat(15, 2)>> >>)>>, <<"holistic_learning", JDict(<< <<"score", JStr(<<"7">>)>> >>)>> >>)>>, <<"overall_picture", JDict(<< <<"overall_kolb_score", JInt(10)>> >>)>> >>)],
      [theologian |-> <<"b">>, sermon |-> <<"0","1">>, analysis |-> kolb,
       data |-> JDict(<< <<"kolb_phases_analysis", JDict(<< <<"phase_1_concrete_experience", JDict(<< <<"score", JNull>> >>)>>, <<"phase_2_reflective_observation", JDict(<< <<"score", JStr(<<>>)>> >>)>>, <<"phase_3_abstract_conceptualization", JDict(<< <<"score", JFloat(21, 2)>> >>)>>, <<"phase_4_active_experimentation", JDict(<< <<"score", JList(<<JInt(7)>>)>> >>)>> >>)>>, <<"learning_styles_analysis", JDict(<< <<"dreamer", JDict(<< <<"score", JInt(7)>> >>)>>, <<"thinker", JDict(<< <<"score", JInt(0)>> >>)>>, <<"doer", JDict(<< <<"score", JBool(TRUE)>> >>)>>, <<"decider", JDict(<< <<"score", JInt(11)>> >>)>>, <<"assimilating_style", JDict(<< <<"score", JFloat(15, 2)>> >>)>>, <<"converging_style", JDict(<< <<"score", JStr(<<"7">>)>> >>)>>, <<"accommodating_style", JDict(<< <<"score", JInt(10)>> >>)>>, <<"diverging_style", JDict(<< <<"score", JBool(FALSE)>> >>)>> >>)>>, <<"integrality_and_cycle", JDict(<< <<"cycle_completeness", JDict(<< <<"score", JFloat(0, 1)>> >>)>>, <<"balance_between_phases", JDict(<< <<"score", JInt(0 - 1)>> >>)>>, <<"holistic_learning", JDict(<< <<"score", JNull>> >>)>> >>)>>, <<"overall_picture", JDict(<< <<"overall_kolb_score", JStr(<<>>)>> >>)>> >>)],
      [theologian |-> <<"a">>, sermon |-> <<"0","1">>, analysis |-> schulz_von_thun,
       data |-> JDict(<< <<"schulz_von_thun_analysis", JDict(<< <<"factual_content_blue", JDict(<< <<"score", JInt(7)>> >>)>>, <<"self_revelation_green", JDict(<< <<"score", JInt(0)>> >>)>>, <<"relational_aspect_yellow", JDict(<< <<"score", JBool(TRUE)>> >>)>>, <<"appeal_aspect_red", JDict(<< <<"score", JInt(11)>> >>)>> >>)>>, <<"overall_picture", JDict(<< <<"overall_communication_score", JFloat(15, 2)>> >>)>> >>)],
      [theologian |-> <<"a">>, sermon |-> <<"0","1">>, analysis |-> schulz_von_thun,
       data |-> JDict(<< <<"schulz_von_thun_analysis", JDict(<< <<"factual_content_blue", JDict(<< <<"score", JStr(<<"7">>)>> >>)>>, <<"self_revelation_green", JDict(<< <<"score", JInt(10)>> >>)>>, <<"relational_aspect_yellow", JDict(<< <<"score", JBool(FALSE)>> >>)>>, <<"appeal_aspect_red", JDict(<< <<"score", JFloat(0, 1)>> >>)>> >>)>>, <<"overall_picture", JDict(<< <<"overall_communication_score", JInt(0 - 1)>> >>)>> >>)],
      [theologian |-> <<"b">>, sermon |-> <<"0","1">>, analysis |-> schulz_von_thun,
       data |-> JDict(<< <<"schulz_von_thun_analysis", JDict(<< <<"factual_content_blue", JDict(<< <<"score", JNull>> >>)>>, <<"self_revelation_green", JDict(<< <<"score", JStr(<<>>)>> >>)>>, <<"relational_aspect_yellow", JDict(<< <<"score", JFloat(21, 2)>> >>)>>, <<"appeal_aspect_red", JDict(<< <<"score", JList(<<JInt(7)>>)>> >>)>> >>)>>, <<"overall_picture", JDict(<< <<"overall_communication_score", JInt(7)>> >>)>> >>)],
      [theologian |-> <<"a">>, sermon |-> <<"0","1">>, analysis |-> esthetiek,
       data |-> JDict(<< <<"domain_a_poetics_of_language", JDict(<< <<"criterion_a1_imagery", JDict(<< <<"score", JInt(7)>> >>)>>, <<"criterion_a12_sound_and_rhythm", JDict(<< <<"score", JInt(0)>> >>)>>, <<"average_score_language", JStr(<<"7">>)>> >>)>>, <<"domain_b_dramaturgy_of_structure", JDict(<< <<"criterion_b1_arc", JDict(<< <<"score", JBool(TRUE)>> >>)>>, <<"average_score_structure", JInt(10)>> >>)>>, <<"kitsch_diagnosis", JDict(<< <<"anti_kitsch_score", JInt(11)>> >>)>>, <<"space_for_grace_analysis", JDict(<< <<"space_score", JFloat(15, 2)>> >>)>>, <<"overall_aesthetics", JDict(<< <<"overall_aesthetic_score", JBool(FALSE)>> >>)>> >>)],
      [theologian |-> <<"a">>, sermon |-> <<"0","1">>, analysis |-> esthetiek,
       data |-> JDict(<< <<"domain_a_poetics_of_language", JDict(<< <<"criterion_a1_imagery", JDict(<< <<"score", JStr(<<"7">>)>> >>)>>, <<"criterion_a12_sound_and_rhythm", JDict(<< <<"score", JInt(10)>> >>)>>, <<"average_score_language", JNull>> >>)>>, <<"domain_b_dramaturgy_of_structure", JDict(<< <<"criterion_b1_arc", JDict(<< <<"score", JBool(FALSE)>> >>)>>, <<"average_score_structure", JStr(<<>>)>> >>)>>, <<"kitsch_diagnosis", JDict(<< <<"anti_kitsch_score", JFloat(0, 1)>> >>)>>, <<"space_for_grace_analysis", JDict(<< <<"space_score", JInt(0 - 1)>> >>)>>, <<"overall_aesthetics", JDict(<< <<"overall_aesthetic_score", JFloat(21, 2)>> >>)>> >>)],
      [theologian |-> <<"b">>, sermon |-> <<"0","1">>, analysis |-> esthetiek,
       data |-> JDict(<< <<"domain_a_poetics_of_language", JDict(<< <<"criterion_a1_imagery", JDict(<< <<"score", JNull>> >>)>>, <<"criterion_a12_sound_and_rhythm", JDict(<< <<"score", JStr(<<>>)>> >>)>>, <<"average_score_language", JInt(0)>> >>)>>, <<"domain_b_dramaturgy_of_structure", JDict(<< <<"criterion_b1_arc", JDict(<< <<"score", JFloat(21, 2)>> >>)>>, <<"average_score_structure", JBool(TRUE)>> >>)>>, <<"kitsch_diagnosis", JDict(<< <<"anti_kitsch_score", JList(<<JInt(7)>>)>> >>)>>, <<"space_for_grace_analysis", JDict(<< <<"space_score", JInt(7)>> >>)>>, <<"overall_aesthetics", JDict(<< <<"overall_aesthetic_score", JInt(11)>> >>)>> >>)],
      [theologian |-> <<"a">>, sermon |-> <<"0","1">>, analysis |-> transactional,
       data |-> JDict(<< <<"ego_positions_scan", JDict(<< <<"parent", JDict(<< <<"freedom_from_critical_parent_CP", JDict(<< <<"score", JInt(7)>> >>)>>, <<"healthy_care_NP", JDict(<< <<"score", JInt(0)>> >>)>> >>)>>, <<"adult", JDict(<< <<"score", JBool(TRUE)>> >>)>>, <<"child", JDict(<< <<"freedom_from_adapted_child_AC", JDict(<< <<"score", JInt(11)>> >>)>>, <<"free_child_FC", JDict(<< <<"score", JFloat(15, 2)>> >>)>> >>)>> >>)>>, <<"transaction_analysis", JDict(<< <<"communicative_purity_score", JStr(<<"7">>)>> >>)>>, <<"conclusion_and_recommendation", JDict(<< <<"psychological_health_score", JInt(10)>> >>)>> >>)],
      [theologian |-> <<"a">>, sermon |-> <<"0","1">>, analysis |-> transactional,
       data |-> JDict(<< <<"ego_positions_scan", JDict(<< <<"parent", JDict(<< <<"freedom_from_critical_parent_CP", JDict(<< <<"score", JStr(<<"7">>)>> >>)>>, <<"healthy_care_NP", JDict(<< <<"score", JInt(10)>> >>)>> >>)>>, <<"adult", JDict(<< <<"score", JBool(FALSE)>> >>)>>, <<"child", JDict(<< <<"freedom_from_adapted_child_AC", JDict(<< <<"score", JFloat(0, 1)>> >>)>>, <<"free_child_FC", JDict(<< <<"score", JInt(0 - 1)>> >>)>> >>)>> >>)>>, <<"transaction_analysis", JDict(<< <<"communicative_purity_score", JNull>> >>)>>, <<"conclusion_and_recommendation", JDict(<< <<"psychological_health_score", JStr(<<>>)>> >>)>> >>)],
      [theologian |-> <<"b">>, sermon |-> <<"0","1">>, analysis |-> transactional,
       data |-> JDict(<< <<"ego_positions_scan", JDict(<< <<"parent", JDict(<< <<"freedom_from_critical_parent_CP", JDict(<< <<"score", JNull>> >>)>>, <<"healthy_care_NP", JDict(<< <<"score", JStr(<<>>)>> >>)>> >>)>>, <<"adult", JDict(<< <<"score", JFloat(21, 2)>> >>)>>, <<"child", JDict(<< <<"freedom_from_adapted_child_AC", JDict(<< <<"score", JList(<<JInt(7)>>)>> >>)>>, <<"free_child_FC", JDict(<< <<"score", JInt(7)>> >>)>> >>)>> >>)>>, <<"transaction_analysis", JDict(<< <<"communicative_purity_score", JInt(0)>> >>)>>, <<"conclusion_and_recommendation", JDict(<< <<"psychological_health_score", JBool(TRUE)>> >>)>> >>)],
      [theologian |-> <<"a">>, sermon |-> <<"0","1">>, analysis |-> aristoteles,
       data |-> JDict(<< <<"aristotelian_modes_analysis", JNull>> >>)],
      [theologian |-> <<"b">>, sermon |-> <<"0","1">>, analysis |-> esthetiek,
       data |-> JDict(<< <<"kitsch_diagnosis", JList(<<>>)>> >>)],
      [theologian |-> <<"a">>, sermon |-> <<"0","1">>, analysis |-> metaphor,
       data |-> JDict(<< <<"overall_picture", JDict(<< <<"overall_rhetorical_score", JInt(7)>> >>)>> >>)]
    }


NoItem == [theologian |-> <<>>, sermon |-> <<>>, analysis |-> <<>>, data |-> EmptyDict]

\* lines 219-227 (stats) and 296-304 (violin), one turn of the loop of
\* aggregate_scores over all_data
AggregateItem ==
    /\ phase = "scores"
    /\ sc_pc = "run"
    /\ sc_count < MaxItems
    /\ \E item \in ScoreItems :
       \E r \in {extract_scores(sc_module, item.data, item.analysis, sc_detailed)} :
         /\ sc_item' = item
         /\ IF r.k = "raise"
            THEN /\ sc_pc' = "raised"
                 /\ UNCHANGED <<sc_series, sc_scores, sc_count>>
            ELSE /\ sc_scores' = r.a
                 /\ sc_series' = AppendScores(sc_series, item.theologian, r.a)
                 /\ sc_count' = sc_count + 1
                 /\ UNCHANGED sc_pc
    /\ UNCHANGED <<sc_module, sc_detailed, sc_result>>
    /\ UNCHANGED <<phase, fileVars, serVars, extVars, tsvVars>>
    /\ UNCHANGED scoreOthers

\* lines 229-240 (stats) and 306-317 (violin): the statistics of every
\* series, once all_data is gone through
Summarise ==
    /\ phase = "scores"
    /\ sc_pc = "run"
    /\ sc_result' = [key \in DOMAIN sc_series |->
                        IF sc_module = "stats" THEN calculate_stats(sc_series[key])
                        ELSE calculate_violin_data(sc_series[key])]
    /\ sc_pc' = "done"
    /\ UNCHANGED <<sc_module, sc_detailed, sc_series, sc_count, sc_item, sc_scores>>
    /\ UNCHANGED <<phase, fileVars, serVars, extVars, tsvVars>>
    /\ UNCHANGED scoreOthers

InitScores ==
    /\ phase = "scores"
    /\ sc_module \in {"stats", "violin"}
    /\ sc_detailed \in BOOLEAN
    /\ sc_series = NoSeries
    /\ sc_count = 0
    /\ sc_pc = "run"
    /\ sc_item = NoItem
    /\ sc_scores = <<>>
    /\ sc_result = NoSeries
    /\ FilesIdle
    /\ SerIdle
    /\ ExtIdle
    /\ TsvIdle
    /\ StatIdle
    /\ LoadIdle
    /\ RunIdle

NextScores == AggregateItem \/ Summarise

SpecScores == InitScores /\ [][NextScores]_vars

---------------------------------------------------------------------------
(* Claims about the series of aggregate_scores. *)

\* every value of every series
SeriesValues == UNION {Range(sc_series[key]) : key \in DOMAIN sc_series}

\* C13: every value of every (metric_key, category) series aggregate_scores
\* builds, at both levels of detail and in both aggregators, is a number in
\* the closed interval [0, 10]: a score below 0, above 10 or not a number is
\* dropped.
C13_Original ==
    \A v \in SeriesValues :
        /\ v.t \in {"int", "float"}
        /\ InRange(v)

\* C14: a falsy score (0, 0.0, false, "") is excluded at extraction for
\* every metric of every domain at every level of detail, so that no series
\* holds a 0.
C14_Original ==
    \A v \in SeriesValues : Truthy(v)

---------------------------------------------------------------------------
(* Claims about calculate_stats and calculate_violin_data. *)

\* the numbers of the series handed over
SeriesRats == [i \in 1..Len(st_values) |-> Rat(st_values[i])]

\* sum / count, exactly
ExactMean == RMul(RSum(SeriesRats), <<1, Len(st_values)>>)

\* the population variance, exactly: the mean of the squares less the square
\* of the mean
ExactVariance ==
    RSub(RMul(RSum([i \in 1..Len(st_values) |-> RMul(SeriesRats[i], SeriesRats[i])]),
              <<1, Len(st_values)>>),
         RMul(ExactMean, ExactMean))

\* a is b to two decimals: a has two decimals and is no further than 0.005
\* from b
IsRounded2(a, b) ==
    /\ (100 * a[1]) % a[2] = 0
    /\ ~RLess(<<1, 200>>, RSub(a, b))
    /\ ~RLess(<<1, 200>>, RSub(b, a))

\* a is the square root of b to two decimals
IsSqrtRounded2(a, b) ==
    /\ (100 * a[1]) % a[2] = 0
    /\ \/ RLess(a, <<1, 200>>)
       \/ ~RLess(b, RMul(RSub(a, <<1, 200>>), RSub(a, <<1, 200>>)))
    /\ ~RLess(RMul(RAdd(a, <<1, 200>>), RAdd(a, <<1, 200>>)), b)

\* C15 as stated: for every series that is not empty calculate_stats
\* returns count = the number of values, mean = sum / count and stdDev = the
\* population standard deviation.
C15_Original ==
    st_stats # NotCalculated =>
        /\ st_stats.count = Len(st_values)
        /\ Rat(st_stats.mean) = ExactMean
        /\ RMul(Rat(st_stats.stdDev), Rat(st_stats.stdDev)) = ExactVariance

\* C15, amended: for every series that is not empty calculate_stats returns
\* count = the number of values, mean = sum / count rounded to two decimals
\* and stdDev = the population standard deviation (divisor count) rounded to
\* two decimals, stdDev being exactly 0.0 when count = 1; of the series
\* [2,4,4,4,5,5,7,9] it returns mean 5.0, count 8 and stdDev 2.0.
C15_Amended ==
    st_stats # NotCalculated =>
        /\ st_stats.count = Len(st_values)
        /\ st_stats.mean.t = "float"
        /\ IsRounded2(Rat(st_stats.mean), ExactMean)
        /\ st_stats.stdDev.t = "float"
        /\ IsSqrtRounded2(Rat(st_stats.stdDev), ExactVariance)
        /\ Len(st_values) = 1 => st_stats.stdDev = JFloat(0, 1)
        /\ st_values = EXAMPLE_SERIES =>
              /\ Rat(st_stats.mean) = <<5, 1>>
              /\ st_stats.count = 8
              /\ Rat(st_stats.stdDev) = <<2, 1>>

\* the statistics of a series of three values whose mean and standard
\* deviation have more than two decimals
C15_Witness ==
    /\ st_stats # NotCalculated
    /\ Len(st_values) = 3
    /\ Rat(st_stats.mean) # ExactMean
    /\ RMul(Rat(st_stats.stdDev), Rat(st_stats.stdDev)) # ExactVariance

\* the permutations of 1..n
Perms(n) == {f \in [1..n -> 1..n] : \A i, j \in 1..n : i # j => f[i] # f[j]}

\* the numbers of out are those of the series in ascending order, each as
\* Same(result, input) has it
IsSortedSeries(out, Same(_, _)) ==
    /\ Len(out) = Len(st_values)
    /\ \A i \in 1..(Len(out) - 1) : ~RLess(Rat(out[i + 1]), Rat(out[i]))
    /\ \E f \in Perms(Len(out)) : \A i \in 1..Len(out) : Same(Rat(out[i]), SeriesRats[f[i]])

\* the least and the greatest number of the series, and its element at a
\* place of the ascending order, counted from 1
SeriesMin == CHOOSE x \in Range(SeriesRats) : \A y \in Range(SeriesRats) : ~RLess(y, x)
SeriesMax == CHOOSE x \in Range(SeriesRats) : \A y \in Range(SeriesRats) : ~RLess(x, y)
SeriesAt(k) ==
    CHOOSE x \in Range(SeriesRats) :
        /\ Cardinality({i \in 1..Len(st_values) : RLess(SeriesRats[i], x)}) < k
        /\ Cardinality({i \in 1..Len(st_values) : ~RLess(x, SeriesRats[i])}) >= k

\* the quartile i of a series of four values or more: the value at the
\* place i * (n + 1) / 4 of the ascending order, between two neighbours in
\* proportion, the place kept within 1 and n
StandardQuartile(i) ==
    Bind(Len(st_values), LAMBDA n :
    Bind(Max({1, Min({n - 1, (i * (n + 1)) \div 4})}), LAMBDA j :
         RAdd(SeriesAt(j),
              RMul(<<i * (n + 1) - 4 * j, 4>>, RSub(SeriesAt(j + 1), SeriesAt(j))))))

\* what C16 says of the summary: Same(result, value) is the way a number of
\* the result stands for the value it is said to be
ViolinAsStated(Same(_, _)) ==
    /\ st_violin.count = Len(st_values)
    /\ IsSortedSeries(st_violin.values, Same)
    /\ Len(st_values) = 1 =>
          \A name \in {"min", "max", "median", "q1", "q3", "mean"} :
              Same(Rat(st_violin.summary[name]), SeriesRats[1])
    /\ Len(st_values) \in {2, 3} =>
          /\ Same(Rat(st_violin.summary.q1), SeriesAt((Len(st_values) \div 4) + 1))
          /\ Same(Rat(st_violin.summary.q3), SeriesAt(((3 * Len(st_values)) \div 4) + 1))
          /\ Same(Rat(st_violin.summary.q1), SeriesMin)
          /\ Same(Rat(st_violin.summary.q3), SeriesMax)
    /\ Len(st_values) >= 4 =>
          /\ Same(Rat(st_violin.summary.q1), StandardQuartile(1))
          /\ Same(Rat(st_violin.summary.q3), StandardQuartile(3))

---------------------------------------------------------------------------
(* The loaders of the two aggregators: parse_filename and load_all_data *)

RAW_SUFFIX == <<".","r","a","w">>

FILE_INDEX == <<"f","i","l","e","_","i","n","d","e","x">>

STATISTICS == <<"s","t","a","t","i","s","t","i","c","s">>

VIOLIN_DATA == <<"v","i","o","l","i","n","_","d","a","t","a">>

\* the types the distribution aggregator's parse_filename looks for
KNOWN_ANALYSIS_TYPES ==
    <<aristoteles, dekker, kolb, schulz_von_thun, esthetiek, transactional>>

\* precompute_statistics.parse_filename: no scan for a type, the sermon is
\* parts[1] and the analysis is the rest
stat_parse_filename(fn) ==
    IF \/ ~EndsWith(fn, DOT_JSON)
       \/ EndsWith(fn, RAW_SUFFIX)
       \/ StartsWith(fn, FILE_INDEX)
       \/ StartsWith(fn, STATISTICS)
    THEN None
    ELSE LET parts == Split(Replace(fn, DOT_JSON, <<>>), "_")
         IN  IF Len(parts) < 3 THEN None
             ELSE <<parts[1], parts[2], Join(Slice(parts, 2, Len(parts)), US)>>

\* violin_data_precompute.parse_filename: the converter's scan, over the six
\* known types, and without the repeat-run rule
violin_parse_filename(fn) ==
    IF \/ ~EndsWith(fn, DOT_JSON)
       \/ EndsWith(fn, RAW_SUFFIX)
       \/ StartsWith(fn, FILE_INDEX)
       \/ StartsWith(fn, STATISTICS)
       \/ StartsWith(fn, VIOLIN_DATA)
    THEN None
    ELSE parse_parts(Split(Replace(fn, DOT_JSON, <<>>), "_"), KNOWN_ANALYSIS_TYPES)

\* the item load_all_data appends for a file
DataItem(parsed, data) ==
    [theologian |-> parsed[1], sermon |-> parsed[2], analysis |-> parsed[3],
     data |-> data]

\* the body of the loop of load_all_data, the same in both aggregators, for
\* one file: the items it appends to all_data.  A file that cannot be read
\* or decoded is warned about, and a value that is no dict is skipped; an
\* array is not looked into
load_all_data(parsed, c) ==
    IF parsed = None THEN <<>>
    ELSE IF c.kind # "json" THEN <<>>
    ELSE IF ~IsDict(c.value) THEN <<>>
    ELSE <<DataItem(parsed, c.value)>>

StatLoad ==
    /\ phase = "files"
    /\ stat_pc = "todo"
    /\ \E parsed \in {stat_parse_filename(filename)} :
          stat_data' = stat_data \o load_all_data(parsed, content)
    /\ stat_pc' = "done"
    /\ UNCHANGED <<phase, fileVars, serVars, extVars, tsvVars, scoreVars, statVars, runVars>>
    /\ UNCHANGED <<violin_data, violin_pc, problems, chk_checked>>

ViolinLoad ==
    /\ phase = "files"
    /\ violin_pc = "todo"
    /\ \E parsed \in {violin_parse_filename(filename)} :
          IF parsed # None /\ ~IsTriple(parsed)
          THEN /\ violin_pc' = "raised"
               /\ UNCHANGED violin_data
          ELSE /\ violin_data' = violin_data \o load_all_data(parsed, content)
               /\ violin_pc' = "done"
    /\ UNCHANGED <<phase, fileVars, serVars, extVars, tsvVars, scoreVars, statVars, runVars>>
    /\ UNCHANGED <<stat_data, stat_pc, problems, chk_checked>>

---------------------------------------------------------------------------
(* check_complete_cases: its second loop *)

\* SCORE_FIELDS: for every type its critical fields, each the keys of its
\* dotted path (path.split('.')) and its name in the report
SCORE_FIELDS(analysis_type) ==
    CASE analysis_type = aristoteles ->
        <<
            << <<"aristotelian_modes_analysis", "logos", "score">>, "logos.score" >>,
            << <<"aristotelian_modes_analysis", "pathos", "score">>, "pathos.score" >>,
            << <<"aristotelian_modes_analysis", "ethos", "score">>, "ethos.score" >>,
            << <<"overall_picture", "overall_rhetorical_score">>, "overall.score" >>
        >>
      [] analysis_type = dekker ->
        <<
            << <<"analysis_per_criterion", "1_specific_bible_passage", "score_1_to_10">>, "specific_bible_passage.score" >>
        >>
      [] analysis_type = kolb ->
        <<
            << <<"kolb_phases_analysis", "phase_1_concrete_experience", "score">>, "concrete_experience.score" >>,
            << <<"kolb_phases_analysis", "phase_2_reflective_observation", "score">>, "reflective_observation.score" >>,
            << <<"kolb_phases_analysis", "phase_3_abstract_conceptualization", "score">>, "abstract_conceptualization.score" >>,
            << <<"kolb_phases_analysis", "phase_4_active_experimentation", "score">>, "active_experimentation.score" >>,
            << <<"overall_picture", "overall_kolb_score">>, "overall.score" >>
        >>
      [] analysis_type = schulz_von_thun ->
        <<
            << <<"schulz_von_thun_analysis", "factual_content_blue", "score">>, "factual_content.score" >>,
            << <<"schulz_von_thun_analysis", "self_revelation_green", "score">>, "self_revelation.score" >>,
            << <<"schulz_von_thun_analysis", "relational_aspect_yellow", "score">>, "relational_aspect.score" >>,
            << <<"schulz_von_thun_analysis", "appeal_aspect_red", "score">>, "appeal_aspect.score" >>,
            << <<"overall_picture", "overall_communication_score">>, "overall.score" >>
        >>
      [] analysis_type = esthetiek ->
        <<
            << <<"overall_aesthetics", "overall_aesthetic_score">>, "overall.score" >>
        >>
      [] analysis_type = transactional ->
        <<
            << <<"conclusion_and_recommendation", "psychological_health_score">>, "overall.score" >>
        >>
      [] analysis_type = metaphor ->
        <<
            << <<"diagnostische_evaluatie", "coherentie_analyse", "overall_coherentie">>, "coherentie.overall" >>
        >>
      [] analysis_type = speech_act ->
        <<
            << <<"drievoudige_structuur_analyse", "illocutie", "helderheid_score">>, "illocutie.helderheid_score" >>,
            << <<"diagnostische_evaluatie", "gebeuren_score">>, "diagnose.gebeuren_score" >>
        >>
      [] analysis_type = narrative ->
        <<
            << <<"diagnostische_evaluatie", "narratieve_coherentie", "coherentie_score">>, "coherentie.score" >>
        >>


\* a slip: the walk stops at a value that is no dict and returns it
get_nested_value_stopping(data, keys) ==
    LET RECURSIVE walk(_, _)
        walk(v, ks) ==
            IF ks = <<>> THEN v
            ELSE IF IsDict(v) /\ HasKey(v.o, Head(ks))
                 THEN walk(ValueOf(v.o, Head(ks)), Tail(ks))
                 ELSE IF IsDict(v) THEN JNull ELSE v
    IN  walk(data, keys)

\* get_nested_value: the value at the end of the path, or None (JNull) as
\* soon as the value in hand is no dict or has not the key
get_nested_value(data, keys) ==
    LET RECURSIVE walk(_, _)
        walk(v, ks) ==
            IF ks = <<>> THEN v
            ELSE IF IsDict(v) /\ HasKey(v.o, Head(ks))
                 THEN walk(ValueOf(v.o, Head(ks)), Tail(ks))
                 ELSE JNull
    IN  walk(data, keys)

\* value is None or value == ''
IsMissing(v) == v = JNull \/ v = JStr(<<>>)

\* a record of the list problems
Issue(theologian, sermon_id, analysis_type, issue_type, field, description) ==
    [theologian |-> theologian, sermon_id |-> sermon_id,
     sermon_key |-> theologian \o US \o sermon_id, domain |-> analysis_type,
     issue_type |-> issue_type, field |-> field, description |-> description]

\* lines 171-179
missing_file(theologian, sermon_id, analysis_type) ==
    Issue(theologian, sermon_id, analysis_type, "missing_file", "",
          [text |-> "File does not exist",
           of |-> theologian \o US \o sermon_id \o US \o analysis_type \o DOT_JSON])

\* lines 202-214: one issue for every critical field that is None or ''
missing_fields(theologian, sermon_id, analysis_type, data) ==
    LET missing == SelectSeq(SCORE_FIELDS(analysis_type),
                             LAMBDA f : IsMissing(get_nested_value(data, f[1])))
    IN  [i \in 1..Len(missing) |->
            Issue(theologian, sermon_id, analysis_type, "missing_field",
                  missing[i][2],
                  [text |-> "Field is missing or empty", of |-> missing[i][1]])]

\* lines 216-225
read_error(theologian, sermon_id, analysis_type) ==
    Issue(theologian, sermon_id, analysis_type, "read_error", "",
          [text |-> "Error reading file", of |-> <<>>])

\* lines 195-196: the first element of an array that has one, whatever it is
chk_first_or_self(v) ==
    IF IsList(v) /\ Len(v.l) > 0 THEN v.l[1] ELSE v

\* a slip: a file that is not found under the name put together from the
\* sermon and the type is reported as missing
check_present_or_missing(theologian, sermon_id, analysis_type, files) ==
    IF theologian \o US \o sermon_id \o US \o analysis_type \o DOT_JSON \notin DOMAIN files
    THEN <<missing_file(theologian, sermon_id, analysis_type)>>
    ELSE Bind(files[theologian \o US \o sermon_id \o US \o analysis_type \o DOT_JSON],
              LAMBDA c :
                 IF c.kind # "json"
                 THEN <<read_error(theologian, sermon_id, analysis_type)>>
                 ELSE IF ~IsDict(chk_first_or_self(c.value))
                 THEN <<>>
                 ELSE missing_fields(theologian, sermon_id, analysis_type,
                                     chk_first_or_self(c.value)))

\* lines 182-225, for a type of present_analyses: the file is looked for
\* under the name put together from the sermon and the type, in the
\* directory files (name -> what reading it gives).  A file that cannot be
\* decoded as UTF-8 raises out of the function, see check_raises
check_present(theologian, sermon_id, analysis_type, files) ==
    IF theologian \o US \o sermon_id \o US \o analysis_type \o DOT_JSON \notin DOMAIN files
    THEN <<>>
    ELSE Bind(files[theologian \o US \o sermon_id \o US \o analysis_type \o DOT_JSON],
              LAMBDA c :
                 IF c.kind # "json"
                 THEN <<read_error(theologian, sermon_id, analysis_type)>>
                 ELSE IF ~IsDict(chk_first_or_self(c.value))
                 THEN <<>>
                 ELSE missing_fields(theologian, sermon_id, analysis_type,
                                     chk_first_or_self(c.value)))

\* lines 169-225: the issues of one sermon, for the types from the k-th on
RECURSIVE check_types(_, _, _, _, _)
check_types(k, theologian, sermon_id, present_analyses, files) ==
    IF k > Len(ANALYSIS_TYPES) THEN <<>>
    ELSE (IF ANALYSIS_TYPES[k] \notin present_analyses
          THEN <<missing_file(theologian, sermon_id, ANALYSIS_TYPES[k])>>
          ELSE check_present(theologian, sermon_id, ANALYSIS_TYPES[k], files))
         \o check_types(k + 1, theologian, sermon_id, present_analyses, files)

\* lines 159-225: the issues of the sermons among keys, in sorted order
RECURSIVE check_sermons_of(_, _, _)
check_sermons_of(keys, ef, files) ==
    IF keys = {} THEN <<>>
    ELSE Bind(CHOOSE key \in keys : \A other \in keys \ {key} : LessKey(key, other),
              LAMBDA key :
                 check_types(1, key[1], key[2], ef[key], files)
                 \o check_sermons_of(keys \ {key}, ef, files))

\* lines 159-225: the second loop of check_complete_cases
check_sermons(ef, files) == check_sermons_of(DOMAIN ef, ef, files)

CheckSermons ==
    /\ phase = "files"
    /\ chk_done
    /\ ~chk_checked
    /\ problems' = problems \o check_sermons(existing_files, filename :> content)
    /\ chk_checked' = TRUE
    /\ UNCHANGED <<phase, fileVars, serVars, extVars, tsvVars, scoreVars, statVars, runVars>>
    /\ UNCHANGED <<stat_data, stat_pc, violin_data, violin_pc>>

---------------------------------------------------------------------------
(* The four programs over one file of the docs directory *)

\* the most elements of an array read from a file
MaxWrap == 2

LoadNames ==
    { <<"a","_","0","1","_">> \o kolb \o DOT_JSON,
      <<"a","_","0","1","_">> \o speech_act \o DOT_JSON,
      <<"a","_","0","1","_","B","_">> \o kolb \o DOT_JSON,
      <<"a","_","0","1","_","x">> \o DOT_JSON,
      <<"a","_">> \o kolb \o DOT_JSON,
      <<"a","_","0","1","_">> \o kolb,
      STATISTICS \o <<"_","0","1","_">> \o kolb \o DOT_JSON,
      <<"n">> \o DOT_JSON \o <<"_","0","1","_">> \o kolb \o DOT_JSON }

\* json.load raised, or the file could not be opened
Unreadable == [kind |-> "error", value |-> JNull]

\* JSON objects: every critical field of kolb, and of speech_act, absent,
\* null, empty, 0, 7, a string, below a value that is no object, false,
\* an empty array or an empty object
LoadObjects ==
    << JDict(<< <<"kolb_phases_analysis", JDict(<< <<"phase_1_concrete_experience", EmptyDict>>, <<"phase_2_reflective_observation", JDict(<< <<"score", JNull>> >>)>>, <<"phase_3_abstract_conceptualization", JDict(<< <<"score", JStr(<<>>)>> >>)>>, <<"phase_4_active_experimentation", JDict(<< <<"score", JInt(0)>> >>)>> >>)>>, <<"overall_picture", JDict(<< <<"overall_kolb_score", JInt(7)>> >>)>> >>),
       JDict(<< <<"kolb_phases_analysis", JDict(<< <<"phase_1_concrete_experience", JDict(<< <<"score", JNull>> >>)>>, <<"phase_2_reflective_observation", JDict(<< <<"score", JStr(<<>>)>> >>)>>, <<"phase_3_abstract_conceptualization", JDict(<< <<"score", JInt(0)>> >>)>>, <<"phase_4_active_experimentation", JDict(<< <<"score", JInt(7)>> >>)>> >>)>>, <<"overall_picture", JDict(<< <<"overall_kolb_score", JStr(<<"x">>)>> >>)>> >>),
       JDict(<< <<"kolb_phases_analysis", JDict(<< <<"phase_1_concrete_experience", JDict(<< <<"score", JStr(<<>>)>> >>)>>, <<"phase_2_reflective_observation", JDict(<< <<"score", JInt(0)>> >>)>>, <<"phase_3_abstract_conceptualization", JDict(<< <<"score", JInt(7)>> >>)>>, <<"phase_4_active_experimentation", JDict(<< <<"score", JStr(<<"x">>)>> >>)>> >>)>>, <<"overall_picture", JStr(<<"x">>)>> >>),
       JDict(<< <<"kolb_phases_analysis", JDict(<< <<"phase_1_concrete_experience", JDict(<< <<"score", JInt(0)>> >>)>>, <<"phase_2_reflective_observation", JDict(<< <<"score", JInt(7)>> >>)>>, <<"phase_3_abstract_conceptualization", JDict(<< <<"score", JStr(<<"x">>)>> >>)>>, <<"phase_4_active_experimentation", JStr(<<"x">>)>> >>)>>, <<"overall_picture", JDict(<< <<"overall_kolb_score", JBool(FALSE)>> >>)>> >>),
       JDict(<< <<"kolb_phases_analysis", JDict(<< <<"phase_1_concrete_experience", JDict(<< <<"score", JInt(7)>> >>)>>, <<"phase_2_reflective_observation", JDict(<< <<"score", JStr(<<"x">>)>> >>)>>, <<"phase_3_abstract_conceptualization", JStr(<<"x">>)>>, <<"phase_4_active_experimentation", JDict(<< <<"score", JBool(FALSE)>> >>)>> >>)>>, <<"overall_picture", JDict(<< <<"overall_kolb_score", JList(<<>>)>> >>)>> >>),
       JDict(<< <<"kolb_phases_analysis", JDict(<< <<"phase_1_concrete_experience", JDict(<< <<"score", JStr(<<"x">>)>> >>)>>, <<"phase_2_reflective_observation", JStr(<<"x">>)>>, <<"phase_3_abstract_conceptualization", JDict(<< <<"score", JBool(FALSE)>> >>)>>, <<"phase_4_active_experimentation", JDict(<< <<"score", JList(<<>>)>> >>)>> >>)>>, <<"overall_picture", JDict(<< <<"overall_kolb_score", EmptyDict>> >>)>> >>),
       JDict(<< <<"kolb_phases_analysis", JDict(<< <<"phase_1_concrete_experience", JStr(<<"x">>)>>, <<"phase_2_reflective_observation", JDict(<< <<"score", JBool(FALSE)>> >>)>>, <<"phase_3_abstract_conceptualization", JDict(<< <<"score", JList(<<>>)>> >>)>>, <<"phase_4_active_experimentation", JDict(<< <<"score", EmptyDict>> >>)>> >>)>>, <<"overall_picture", EmptyDict>> >>),
       JDict(<< <<"kolb_phases_analysis", JDict(<< <<"phase_1_concrete_experience", JDict(<< <<"score", JBool(FALSE)>> >>)>>, <<"phase_2_reflective_observation", JDict(<< <<"score", JList(<<>>)>> >>)>>, <<"phase_3_abstract_conceptualization", JDict(<< <<"score", EmptyDict>> >>)>>, <<"phase_4_active_experimentation", EmptyDict>> >>)>>, <<"overall_picture", JDict(<< <<"overall_kolb_score", JNull>> >>)>> >>),
       JDict(<< <<"kolb_phases_analysis", JDict(<< <<"phase_1_concrete_experience", JDict(<< <<"score", JList(<<>>)>> >>)>>, <<"phase_2_reflective_observation", JDict(<< <<"score", EmptyDict>> >>)>>, <<"phase_3_abstract_conceptualization", EmptyDict>>, <<"phase_4_active_experimentation", JDict(<< <<"score", JNull>> >>)>> >>)>>, <<"overall_picture", JDict(<< <<"overall_kolb_score", JStr(<<>>)>> >>)>> >>),
       JDict(<< <<"kolb_phases_analysis", JDict(<< <<"phase_1_concrete_experience", JDict(<< <<"score", EmptyDict>> >>)>>, <<"phase_2_reflective_observation", EmptyDict>>, <<"phase_3_abstract_conceptualization", JDict(<< <<"score", JNull>> >>)>>, <<"phase_4_active_experimentation", JDict(<< <<"score", JStr(<<>>)>> >>)>> >>)>>, <<"overall_picture", JDict(<< <<"overall_kolb_score", JInt(0)>> >>)>> >>),
       JDict(<< <<"drievoudige_structuur_analyse", JDict(<< <<"illocutie", EmptyDict>> >>)>>, <<"diagnostische_evaluatie", JDict(<< <<"gebeuren_score", JNull>> >>)>> >>),
       JDict(<< <<"drievoudige_structuur_analyse", JDict(<< <<"illocutie", JDict(<< <<"helderheid_score", JInt(0)>> >>)>> >>)>>, <<"diagnostische_evaluatie", JDict(<< <<"gebeuren_score", JInt(7)>> >>)>> >>) >>


\* what an array read from a file may hold
WrapElems == { LoadObjects[5], LoadObjects[1], JInt(1), JList(<<LoadObjects[5]>>) }

Wraps == UNION {[1..k -> WrapElems] : k \in 0..MaxWrap}

LoadContents ==
    {Loaded(LoadObjects[i]) : i \in 1..Len(LoadObjects)}
    \cup {Loaded(JList(w)) : w \in Wraps}
    \cup {Loaded(JInt(1)), Loaded(JStr(<<"x">>)), Loaded(JNull), Loaded(EmptyDict),
          Unreadable}

InitLoad ==
    /\ phase = "files"
    /\ filename \in LoadNames
    /\ content \in LoadContents
    /\ sermons = NoSermons
    /\ processed = 0
    /\ skipped = 0
    /\ conv_state = "todo"
    /\ conv_parsed = None
    /\ existing_files = NoSermons
    /\ chk_done = FALSE
    /\ chk_parsed = None
    /\ value = JNull
    /\ cell = <<>>
    /\ ser_done = FALSE
    /\ payload = EmptyDict
    /\ cur_type = <<>>
    /\ puts = 0
    /\ last_slot = 0
    /\ extracted = NotExtracted
    /\ sermon = <<>>
    /\ row = NoRow
    /\ written = NoRow
    /\ analyses_done = {}
    /\ TsvIdle
    /\ ScoreIdle
    /\ StatIdle
    /\ stat_data = <<>>
    /\ stat_pc = "todo"
    /\ violin_data = <<>>
    /\ violin_pc = "todo"
    /\ problems = <<>>
    /\ chk_checked = FALSE
    /\ RunIdle

NextLoad == LoadFile \/ CollectFile \/ StatLoad \/ ViolinLoad \/ CheckSermons

SpecLoad == InitLoad /\ [][NextLoad]_vars

---------------------------------------------------------------------------
(* The array of one object *)

\* the file holds an array of one element, a JSON object
IsWrappedObject ==
    /\ content.kind = "json"
    /\ IsList(content.value)
    /\ Len(content.value.l) = 1
    /\ IsDict(content.value.l[1])

\* the file, had it held the object itself
Unwrapped == Loaded(content.value.l[1])

\* the converter has loaded the file as it loads the object
ConverterUnwraps ==
    (conv_state = "done" /\ IsTriple(conv_parsed)) =>
        sermons = StoreRecord(NoSermons, <<conv_parsed[1], conv_parsed[2]>>,
                              conv_parsed[3],
                              [filename |-> filename, data |-> Unwrapped.value])

\* the statistics aggregator has loaded the file as it loads the object
StatisticsUnwraps ==
    stat_pc = "done" =>
        stat_data = load_all_data(stat_parse_filename(filename), Unwrapped)

\* the distribution aggregator has loaded the file as it loads the object
DistributionUnwraps ==
    violin_pc = "done" =>
        violin_data = load_all_data(violin_parse_filename(filename), Unwrapped)

\* the checker reports of the file what it reports of the object
CheckerUnwraps ==
    chk_checked => problems = check_sermons(existing_files, filename :> Unwrapped)

\* C17: a file holding an array of one JSON object is loaded as the file
\* holding that object is, by the converter, by the statistics aggregator, by
\* the distribution aggregator and by the checker
C17_Original ==
    IsWrappedObject =>
        /\ ConverterUnwraps
        /\ StatisticsUnwraps
        /\ DistributionUnwraps
        /\ CheckerUnwraps

\* what does hold of the array of one object: the converter and the checker
\* take it for its object
ConverterAndCheckerUnwrap ==
    IsWrappedObject => (ConverterUnwraps /\ CheckerUnwraps)

---------------------------------------------------------------------------
(* load_all_sermons and a file that holds no object *)

\* load_all_sermons has been through the file, whose name it could parse and
\* whose content is valid JSON
ConverterRead ==
    /\ conv_state = "done"
    /\ IsTriple(conv_parsed)
    /\ content.kind = "json"

\* the file was skipped and counted, and no case has a record of it
SkippedAndCounted ==
    /\ skipped = 1
    /\ processed = 0
    /\ sermons = NoSermons

\* the file was loaded with data as its record
LoadedAs(data) ==
    /\ skipped = 0
    /\ processed = 1
    /\ sermons = StoreRecord(NoSermons, <<conv_parsed[1], conv_parsed[2]>>,
                             conv_parsed[3], [filename |-> filename, data |-> data])

\* the content is an array whose first element is a JSON object
StartsWithObject ==
    /\ IsList(content.value)
    /\ Len(content.value.l) > 0
    /\ IsDict(content.value.l[1])

\* C18 as stated: in load_all_sermons a file of valid JSON that is neither
\* an object nor an array of one object is skipped and counted as skipped,
\* and adds no record
C18_Original ==
    (ConverterRead /\ ~IsDict(content.value) /\ ~IsWrappedObject)
        => SkippedAndCounted

\* C18: in load_all_sermons a file of valid JSON that is neither an object
\* nor an array whose first element is an object (a scalar, null, an empty
\* array, an array that starts with something else) is skipped and counted
\* as skipped, and adds no record; an array of two or more elements whose
\* first element is an object is loaded as that first element
C18_Amended ==
    /\ (ConverterRead /\ ~IsDict(content.value) /\ ~StartsWithObject)
            => SkippedAndCounted
    /\ (ConverterRead /\ StartsWithObject /\ Len(content.value.l) >= 2)
            => LoadedAs(content.value.l[1])

\* an array of a number and an object has been skipped
C18_Witness ==
    /\ ConverterRead
    /\ IsList(content.value)
    /\ Len(content.value.l) = 2
    /\ ~IsDict(content.value.l[1])
    /\ IsDict(content.value.l[2])
    /\ SkippedAndCounted

---------------------------------------------------------------------------
(* check_complete_cases and the content of a file that is there *)

\* the checker has been through both loops, and the first has found the
\* file to be the record of a declared domain of a case
DomainFound ==
    /\ chk_checked
    /\ IsTriple(chk_parsed)
    /\ chk_parsed[3] \in Range(ANALYSIS_TYPES)

\* the issues of the report for the case and the domain of the file
IssuesOfFile ==
    SelectSeq(problems, LAMBDA p : /\ p.theologian = chk_parsed[1]
                                   /\ p.sermon_id = chk_parsed[2]
                                   /\ p.domain = chk_parsed[3])

\* C19: a domain whose file is there but holds valid JSON that is neither an
\* object nor an array of one object is not taken as present in silence: the
\* report has an issue for that case and domain
C19_Original ==
    (DomainFound /\ content.kind = "json" /\ ~IsDict(content.value)
        /\ ~IsWrappedObject)
            => IssuesOfFile # <<>>

\* what does hold: a file that cannot be decoded is reported as a read_error
UnreadableIsReported ==
    (DomainFound /\ content.kind # "json"
        /\ chk_parsed[1] \o US \o chk_parsed[2] \o US \o chk_parsed[3] \o DOT_JSON
                = filename)
            => /\ Len(IssuesOfFile) = 1
               /\ IssuesOfFile[1].issue_type = "read_error"

\* the record the checker looks into: the file is found under the name put
\* together from its case and domain, and holds an object or an array that
\* starts with one
PresentRecord ==
    /\ DomainFound
    /\ chk_parsed[1] \o US \o chk_parsed[2] \o US \o chk_parsed[3] \o DOT_JSON
            = filename
    /\ content.kind = "json"
    /\ IsDict(content.value) \/ StartsWithObject

RecordData == IF IsDict(content.value) THEN content.value ELSE content.value.l[1]

\* where the dotted path ends in the record: at a key that is not there,
\* at a value that is no object, at null, at the empty string, or at a value
RECURSIVE FieldState(_, _)
FieldState(v, keys) ==
    IF keys = <<>>
    THEN (IF v = JNull THEN "null" ELSE IF v = JStr(<<>>) THEN "empty" ELSE "value")
    ELSE IF ~IsDict(v) THEN "nonobject"
    ELSE IF ~HasKey(v.o, Head(keys)) THEN "absent"
    ELSE FieldState(ValueOf(v.o, Head(keys)), Tail(keys))

\* the missing_field issues of the report that name the field
FieldIssues(name) ==
    SelectSeq(IssuesOfFile, LAMBDA p : p.issue_type = "missing_field" /\ p.field = name)

\* C20: for a present record and each critical field of its domain the
\* report has exactly one missing_field issue when the path of the field is
\* absent, passes through a value that is no object, or ends in null or in
\* the empty string, and none when it ends in any other value, 0 included;
\* get_nested_value gives None, and does not raise, where the path is absent
\* or passes through a value that is no object
C20_Theorem ==
    PresentRecord =>
        \A i \in 1..Len(SCORE_FIELDS(chk_parsed[3])) :
            \E f \in {SCORE_FIELDS(chk_parsed[3])[i]} :
                /\ Len(FieldIssues(f[2])) =
                        (IF FieldState(RecordData, f[1]) = "value" THEN 0 ELSE 1)
                /\ FieldState(RecordData, f[1]) \in {"absent", "nonobject"}
                        => get_nested_value(RecordData, f[1]) = JNull

\* a record with a field that is 0 and not reported, and with a field
\* below a value that is no object, reported once
C20_Witness ==
    /\ PresentRecord
    /\ \E i, j \in 1..Len(SCORE_FIELDS(chk_parsed[3])) :
            /\ get_nested_value(RecordData, SCORE_FIELDS(chk_parsed[3])[i][1]) = JInt(0)
            /\ FieldIssues(SCORE_FIELDS(chk_parsed[3])[i][2]) = <<>>
            /\ FieldState(RecordData, SCORE_FIELDS(chk_parsed[3])[j][1]) = "nonobject"
            /\ Len(FieldIssues(SCORE_FIELDS(chk_parsed[3])[j][2])) = 1

---------------------------------------------------------------------------
(* parse_filename as an algorithm over tokens *)

\* the tokens parse_filename works on: those of the name with every
\* ".json" taken out of it
NameTokens == Split(Replace(filename, DOT_JSON, <<>>), "_")

\* the tokens T from the (0-based) index i on start with the tokens of d
StartsAt(T, i, d) ==
    /\ i + Len(Split(d, "_")) <= Len(T)
    /\ SubSeq(T, i + 1, i + Len(Split(d, "_"))) = Split(d, "_")

\* the indices from 1 on at which some known domain name starts
MatchIndices(T) ==
    {i \in 1..(Len(T) - 1) : \E d \in Range(ANALYSIS_TYPES) : StartsAt(T, i, d)}

\* the triple the algorithm gives for the tokens T
Scanned(T) ==
    IF MatchIndices(T) = {} \/ Min(MatchIndices(T)) < 2
    THEN <<T[1], T[2], Join(SubSeq(T, 3, Len(T)), US)>>
    ELSE <<T[1], Join(SubSeq(T, 2, Min(MatchIndices(T))), US),
           Join(SubSeq(T, Min(MatchIndices(T)) + 1, Len(T)), US)>>

\* the converter or the checker has parsed the name to the triple r
ParsedTo(r) ==
    \/ conv_state = "done" /\ conv_parsed = r
    \/ chk_done /\ chk_parsed = r

\* C25: a triple parse_filename returns, in the converter and in the
\* checker, is the one the scan gives for the tokens of the name with every
\* ".json" taken out (the tokens of the stem when no token holds ".json"):
\* subject_id is token 0; with no known domain name from index 1 on, or the
\* first at an index < 2, case_id is token 1 and domain the rest joined;
\* otherwise case_id is the tokens from 1 to the match joined and domain the
\* tokens from the match on, trailing tokens included
C25_Theorem ==
    /\ \A r \in {conv_parsed, chk_parsed} :
          (IsTriple(r) /\ ParsedTo(r)) => r = Scanned(NameTokens)
    /\ (EndsWith(filename, DOT_JSON) /\ ~TokenHasExt) => NameTokens = StemTokens

\* a known domain name found at index 2 with a token after it: the domain
\* returned is no member of the vocabulary
C25_Witness ==
    /\ conv_state = "done"
    /\ chk_done
    /\ IsTriple(conv_parsed)
    /\ conv_parsed = chk_parsed
    /\ Min(MatchIndices(NameTokens) \cup {9}) = 2
    /\ Len(NameTokens) = 4
    /\ conv_parsed[3] \notin Range(ANALYSIS_TYPES)

---------------------------------------------------------------------------
(* The average score of the dekker extraction *)

\* the column dekker.overall.average_score of what was extracted
DekkerAverage == extracted.result[<<"dekker", "overall", "average_score">>]

\* overall_dekker_analysis.average_score is there, and neither null nor ''
AverageGiven ==
    /\ AggregateField(dekker).k = "val"
    /\ AggregateField(dekker).v # JNull
    /\ AggregateField(dekker).v # JStr(<<>>)

\* float() converts the score: of the scores of the model, the numbers and
\* the digit 7 with a line break after it
Convertible(v) == v.t = "int" \/ v = Seven_NL

ScoreNumber(v) == IF v.t = "int" THEN v.n ELSE 7

\* the criterion scores of the JSON object that float() converts
ConvertibleScores == {i \in SubScores(dekker) : Convertible(SubScore(dekker, i))}

RECURSIVE SumOfScores(_)
SumOfScores(idx) ==
    IF idx = {} THEN 0
    ELSE LET i == CHOOSE j \in idx : TRUE
         IN  ScoreNumber(SubScore(dekker, i)) + SumOfScores(idx \ {i})

\* C26: dekker.overall.average_score is overall_dekker_analysis.average_score
\* as it is whenever that is there and neither null nor '' (0 is kept);
\* otherwise it is the arithmetic mean of the criterion scores float()
\* converts, when there is one, and is left empty when there is none
C26_Theorem ==
    (Returned /\ cur_type = dekker) =>
        /\ AverageGiven => DekkerAverage = AggregateField(dekker).v
        /\ (~AverageGiven /\ ConvertibleScores # {}) =>
              /\ DekkerAverage.t = "float"
              /\ DekkerAverage.num * Cardinality(ConvertibleScores)
                    = SumOfScores(ConvertibleScores) * DekkerAverage.den
        /\ (~AverageGiven /\ ConvertibleScores = {}) =>
              (DekkerAverage = JStr(<<>>) \/ DekkerAverage = JNull)

\* an average of 0 in the JSON is kept though two criterion scores are there
C26_Witness ==
    /\ cur_type = dekker
    /\ Returned
    /\ AggregateField(dekker) = Val(JInt(0))
    /\ ConvertibleScores = {4, 5}
    /\ DekkerAverage = JInt(0)

\* a score float() does not convert is left out of the mean
MeanLeavesOutUnconverted ==
    /\ cur_type = dekker
    /\ Returned
    /\ ~AverageGiven
    /\ SubScores(dekker) = {4, 5}
    /\ ConvertibleScores = {5}
    /\ SubScore(dekker, 4) = JStr(<<"x">>)
    /\ DekkerAverage = JFloat(ScoreNumber(SubScore(dekker, 5)), 1)

---------------------------------------------------------------------------
(* The order of the summary calculate_violin_data gives *)

\* a is no more than b
RLeq(a, b) == ~RLess(b, a)

\* the summary of the series handed over
ViolinSummary == st_violin.summary

\* the series has been summarised
Summarised == st_violin # NotCalculated /\ st_violin # JNull

\* C29: the summary of a non-empty series of scores in [0, 10] is in order:
\* min <= q1 <= median <= q3 <= max, and min <= mean <= max, whatever the
\* length of the series
C29_Theorem ==
    Summarised =>
        /\ RLeq(Rat(ViolinSummary.min), Rat(ViolinSummary.q1))
        /\ RLeq(Rat(ViolinSummary.q1), Rat(ViolinSummary.median))
        /\ RLeq(Rat(ViolinSummary.median), Rat(ViolinSummary.q3))
        /\ RLeq(Rat(ViolinSummary.q3), Rat(ViolinSummary.max))
        /\ RLeq(Rat(ViolinSummary.min), Rat(ViolinSummary.mean))
        /\ RLeq(Rat(ViolinSummary.mean), Rat(ViolinSummary.max))

\* four values handed over out of order, the interpolated quartiles of which
\* lie strictly between the values around them
C29_Witness ==
    /\ Summarised
    /\ Len(st_values) = 4
    /\ RLess(SeriesRats[4], SeriesRats[1])
    /\ RLess(Rat(ViolinSummary.min), Rat(ViolinSummary.q1))
    /\ RLess(Rat(ViolinSummary.q1), Rat(ViolinSummary.median))
    /\ RLess(Rat(ViolinSummary.median), Rat(ViolinSummary.q3))
    /\ RLess(Rat(ViolinSummary.q3), Rat(ViolinSummary.max))

---------------------------------------------------------------------------
(* print_summary of 02__json_to_tsv_converter.py: the counts it prints of
   the sermons load_all_sermons returned.  The list incomplete is kept as
   the set of its elements. *)

\* print_summary not called
NotPrinted == [k |-> "none"]

\* lines 766-771 and 784-793
print_summary(sm) ==
    [k |-> "printed",
     total |-> Cardinality(DOMAIN sm),
     theologian_counts |->
        [t \in {key[1] : key \in DOMAIN sm} |->
            Cardinality({key \in DOMAIN sm : key[1] = t})],
     analysis_counts |->
        [a \in UNION {DOMAIN sm[key] : key \in DOMAIN sm} |->
            Cardinality({key \in DOMAIN sm : a \in DOMAIN sm[key]})],
     complete |-> Cardinality({key \in DOMAIN sm : Cardinality(DOMAIN sm[key]) = 9}),
     incomplete |->
        {<<key, Range(ANALYSIS_TYPES) \ DOMAIN sm[key]>> :
            key \in {q \in DOMAIN sm : Cardinality(DOMAIN sm[q]) # 9}}]

\* line 816 of main: print_summary(sermons)
PrintSummary ==
    /\ phase = "summary"
    /\ summary = NotPrinted
    /\ summary' = print_summary(sermons)
    /\ UNCHANGED <<phase, fileVars, serVars, extVars, tsvVars, scoreVars, statVars, loadVars>>
    /\ UNCHANGED <<docs, todo, run_pc, run_no, clock, ended, stat_out, violin_out, first_run>>

\* the most known analysis types a sermon of the model lacks
MaxAbsent == 1

\* the sermons of the model
SummaryKeys == {<< <<"a">>, <<"0","1">> >>, << <<"a">>, <<"0","2">> >>}

\* an analysis type that parse_filename returns and ANALYSIS_TYPES does not
\* hold, as of a_01_x.json
UnknownTypes == {<<"x">>}

\* the analyses a sermon may hold: all known types but MaxAbsent at most,
\* with or without one of another type
SummaryAnalyses ==
    UNION {[types -> {EmptyDict}] :
            types \in {known \cup other :
                          known \in {some \in SUBSET Range(ANALYSIS_TYPES) :
                                        Cardinality(some) >= 9 - MaxAbsent},
                          other \in SUBSET UnknownTypes}}

\* what load_all_sermons may return to main
SummaryInputs ==
    UNION {[keys -> SummaryAnalyses] : keys \in (SUBSET SummaryKeys) \ {{}}}

InitSummary ==
    /\ phase = "summary"
    /\ filename = <<>>
    /\ content = Loaded(EmptyDict)
    /\ sermons \in SummaryInputs
    /\ processed = 0
    /\ skipped = 0
    /\ conv_state = "todo"
    /\ conv_parsed = None
    /\ existing_files = NoSermons
    /\ chk_done = FALSE
    /\ chk_parsed = None
    /\ SerIdle
    /\ ExtIdle
    /\ LaterIdle

NextSummary == PrintSummary

SpecSummary == InitSummary /\ [][NextSummary]_vars

\* the sermons that hold a record of every known analysis type
CompleteSermons == {key \in DOMAIN sermons : Range(ANALYSIS_TYPES) \subseteq DOMAIN sermons[key]}

\* C24: the summary counts a sermon as complete if and only if it holds a
\* record of every one of the 9 known analysis types, whatever records of
\* other types it holds
C24_Original ==
    summary # NotPrinted =>
        /\ summary.complete = Cardinality(CompleteSermons)
        /\ {i[1] : i \in summary.incomplete} = DOMAIN sermons \ CompleteSermons

\* of sermons that hold records of known types only, the complete ones are
\* counted
CompleteOfKnownTypes ==
    (/\ summary # NotPrinted
     /\ \A key \in DOMAIN sermons : DOMAIN sermons[key] \subseteq Range(ANALYSIS_TYPES))
        => summary.complete = Cardinality(CompleteSermons)

\* a sermon of eight known types and one other has been counted as complete
EightAndOneOther ==
    /\ summary # NotPrinted
    /\ \E key \in DOMAIN sermons :
          /\ Cardinality(DOMAIN sermons[key] \cap Range(ANALYSIS_TYPES)) = 8
          /\ Cardinality(DOMAIN sermons[key]) = 9
    /\ summary.complete = Cardinality(DOMAIN sermons)

---------------------------------------------------------------------------
(* The triple parse_filename returns and the name it was given *)

\* the name without its ending
FileStem == SubSeq(filename, 1, Len(filename) - Len(DOT_JSON))

\* theologian + "_" + sermon_id + "_" + analysis_type
Rejoined(r) == Join(<<r[1], r[2], r[3]>>, US)

\* the triples the converter and the checker have returned for the file
TriplesReturned == {r \in {conv_parsed, chk_parsed} : IsTriple(r) /\ ParsedTo(r)}

\* C27 as stated: the parts of a triple returned for a name ending in .json,
\* joined by "_", are the stem of the name
C27_Original ==
    EndsWith(filename, DOT_JSON) =>
        \A r \in TriplesReturned : Rejoined(r) = FileStem

\* C27: the parts of a triple returned for a name that holds ".json" at its
\* end and nowhere else, joined by "_", are the stem of the name: such a name
\* is the only one of its triple, and the path the checker puts together
\* from the triple is the name
C27_Amended ==
    (EndsWith(filename, DOT_JSON) /\ ~TokenHasExt) =>
        \A r \in TriplesReturned :
            /\ Rejoined(r) = FileStem
            /\ Rejoined(r) \o DOT_JSON = filename

\* both programs have returned the triple of a name of four tokens, the two
\* in the middle of which are the sermon id
C27_Witness ==
    /\ EndsWith(filename, DOT_JSON)
    /\ ~TokenHasExt
    /\ TriplesReturned = {conv_parsed}
    /\ conv_parsed = chk_parsed
    /\ Len(StemTokens) = 4
    /\ Len(Split(conv_parsed[2], "_")) = 2
    /\ conv_parsed[3] \in Range(ANALYSIS_TYPES)

\* a name with ".json" inside has been given the triple of a shorter name
TripleOfAnotherName ==
    /\ TriplesReturned # {}
    /\ \A r \in TriplesReturned : Rejoined(r) \o DOT_JSON # filename

---------------------------------------------------------------------------
(* The four programs run as wholes, one after the other, over a docs
   directory of several files, and then once more: main of the converter
   (load_all_sermons, print_summary, create_tsv), check_complete_cases,
   and main of the two aggregators. *)

\* bytes that are no UTF-8: open(..., encoding='utf-8') and json.load raise
\* UnicodeDecodeError, a ValueError that is neither a JSONDecodeError nor an
\* IOError
Undecodable == [kind |-> "undecodable", value |-> JNull]

\* the loop going through json_files as glob gives them
files_as_listed(json_files) == json_files

\* sorted(json_files): the names in the order of their code points
RECURSIVE sorted_files(_)
sorted_files(json_files) ==
    IF json_files = <<>> THEN <<>>
    ELSE Bind(CHOOSE i \in 1..Len(json_files) :
                 \A j \in 1..Len(json_files) :
                    j # i => LessText(json_files[i], json_files[j]),
              LAMBDA i :
                 <<json_files[i]>> \o
                 sorted_files(SubSeq(json_files, 1, i - 1)
                              \o SubSeq(json_files, i + 1, Len(json_files))))

\* list(DOCS_DIR.glob("*.json")): the names of the directory that end in
\* .json, in any order
Globs(dir) ==
    {order \in [1..Cardinality({n \in DOMAIN dir.files : EndsWith(n, DOT_JSON)})
                  -> {n \in DOMAIN dir.files : EndsWith(n, DOT_JSON)}] :
        \A i, j \in DOMAIN order : i # j => order[i] # order[j]}

\* the files load_all_sermons stores a record of, in the order it takes them
StoredFiles(names, files) ==
    SelectSeq(names, LAMBDA n :
        /\ IsTriple(parse_filename(n))
        /\ files[n].kind = "json"
        /\ IsDict(first_or_self(files[n].value)))

\* sermons.items() and analyses.items(): the keys in the order of their
\* first insertion, which is that of the files stored
RECURSIVE items_of(_, _, _)
items_of(sm, stored, sofar) ==
    IF stored = <<>> THEN sofar
    ELSE Bind(parse_filename(Head(stored)), LAMBDA p :
         Bind({i \in 1..Len(sofar) : sofar[i][1] = <<p[1], p[2]>>}, LAMBDA at :
            IF at = {}
            THEN items_of(sm, Tail(stored),
                          Append(sofar, << <<p[1], p[2]>>,
                                           << <<p[3], sm[<<p[1], p[2]>>][p[3]].data>> >> >>))
            ELSE IF \E j \in 1..Len(sofar[Min(at)][2]) : sofar[Min(at)][2][j][1] = p[3]
            THEN items_of(sm, Tail(stored), sofar)
            ELSE items_of(sm, Tail(stored),
                          [sofar EXCEPT ![Min(at)][2] =
                              Append(@, <<p[3], sm[<<p[1], p[2]>>][p[3]].data>>)])))

\* create_tsv(sermons), sermons in dict order: the header and the rows it
\* writes.  An exception of extract_analysis_data comes in the first pass,
\* before the file is opened; the second pass extracts the same once more
create_tsv(sm) ==
    Bind([i \in 1..Len(sm) |-> analyses_columns(sm[i][2])], LAMBDA cols :
        IF \E i \in 1..Len(sm) : cols[i].k = "raise"
        THEN [k |-> "raise", header |-> <<>>, rows |-> <<>>]
        ELSE Bind(ordered_columns(Range(meta_columns)
                                  \cup UNION {cols[i].a : i \in 1..Len(sm)}),
                  LAMBDA fieldnames :
                [k |-> "ok", header |-> fieldnames,
                 rows |-> [i \in 1..Len(sm) |->
                    Bind(sorted_items(sm)[i], LAMBDA item :
                         writerow(fieldnames,
                                  merged_row(FirstRow(item[1][1], item[1][2]), item[2]).a))]]))

\* parse_filename of the module
module_parse_filename(module, fn) ==
    IF module = "stats" THEN stat_parse_filename(fn) ELSE violin_parse_filename(fn)

\* load_all_data of an aggregator over the sorted names: all_data, or the
\* exception of a file that is no UTF-8
RECURSIVE load_all_files(_, _, _)
load_all_files(module, names, files) ==
    IF names = <<>> THEN Ok(<<>>)
    ELSE Bind(module_parse_filename(module, Head(names)), LAMBDA parsed :
            IF parsed # None /\ files[Head(names)].kind = "undecodable"
            THEN Err("UnicodeDecodeError")
            ELSE Bind(load_all_files(module, Tail(names), files), LAMBDA rest :
                    IF rest.k = "raise" THEN rest
                    ELSE Ok(load_all_data(parsed, files[Head(names)]) \o rest.a)))

\* the first loop of aggregate_scores: the series of every (metric_key,
\* theologian), or the exception of extract_scores
RECURSIVE collect_scores(_, _, _, _)
collect_scores(module, all_data, detailed, series) ==
    IF all_data = <<>> THEN Ok(series)
    ELSE Bind(extract_scores(module, Head(all_data).data, Head(all_data).analysis, detailed),
              LAMBDA r :
                 IF r.k = "raise" THEN r
                 ELSE collect_scores(module, Tail(all_data), detailed,
                                     AppendScores(series, Head(all_data).theologian, r.a)))

\* aggregate_scores(all_data, detailed): what it returns, with the pair
\* (metric_key, theologian) for the two keys of the nested dict
aggregate_scores(module, all_data, detailed) ==
    Bind(collect_scores(module, all_data, detailed, NoSeries), LAMBDA r :
        IF r.k = "raise" THEN r
        ELSE Ok([key \in DOMAIN r.a |->
                    IF module = "stats" THEN calculate_stats(r.a[key])
                    ELSE calculate_violin_data(r.a[key])]))

\* get_available_theologians: the list is sorted, so the set stands for it
get_available_theologians(all_data) ==
    {all_data[i].theologian : i \in 1..Len(all_data)}

\* count_sermons_per_theologian
count_sermons_per_theologian(all_data) ==
    [t \in get_available_theologians(all_data) |->
        Cardinality({all_data[i].sermon : i \in {j \in 1..Len(all_data) :
                                                    all_data[j].theologian = t}})]

\* the output of main of an aggregator, written at the time now
output_document(module, all_data, now) ==
    Bind(aggregate_scores(module, all_data, FALSE), LAMBDA summ :
    Bind(aggregate_scores(module, all_data, TRUE), LAMBDA det :
        IF summ.k = "raise" THEN summ
        ELSE IF det.k = "raise" THEN det
        ELSE IF module = "stats"
        THEN Ok([generated_at |-> now,
                 theologians |-> get_available_theologians(all_data),
                 summary |-> summ.a,
                 detailed |-> det.a])
        ELSE Ok([generated_at |-> now,
                 theologians |-> get_available_theologians(all_data),
                 sermon_counts |-> count_sermons_per_theologian(all_data),
                 summary |-> summ.a,
                 detailed |-> det.a])))

\* the first loop of check_complete_cases, lines 149-156
RECURSIVE collect_existing(_, _)
collect_existing(names, ef) ==
    IF names = <<>> THEN ef
    ELSE Bind(chk_parse_filename(Head(names)), LAMBDA parsed :
            collect_existing(Tail(names),
                IF IsTriple(parsed) /\ parsed[3] \in Range(ANALYSIS_TYPES)
                THEN AddExisting(ef, <<parsed[1], parsed[2]>>, parsed[3])
                ELSE ef))

\* the second loop of check_complete_cases opens a file that is no UTF-8:
\* the UnicodeDecodeError passes the except clause of line 216
check_raises(ef, files) ==
    \E key \in DOMAIN ef : \E type \in ef[key] :
        /\ key[1] \o US \o key[2] \o US \o type \o DOT_JSON \in DOMAIN files
        /\ files[key[1] \o US \o key[2] \o US \o type \o DOT_JSON].kind = "undecodable"

\* no program of the run has ended
NotEnded == [converter |-> "running", checker |-> "running",
             statistics |-> "running", distribution |-> "running"]

NotWritten == [k |-> "none"]

\* the file an aggregator writes into the docs directory; the four programs
\* reject its name and never read it
OutputFile(module) == (IF module = "stats" THEN STATISTICS ELSE VIOLIN_DATA) \o DOT_JSON

WithOutput(dir, module) ==
    [dir EXCEPT !.files = (OutputFile(module) :> Loaded(EmptyDict)) @@ @]

\* lines 656-665 of load_all_sermons: a directory that does not exist gives
\* no file; the loop goes through sorted(json_files)
Glob ==
    /\ phase = "files"
    /\ run_pc = "glob"
    /\ \E order \in (IF docs.exists THEN Globs(docs) ELSE {<<>>}) :
          todo' = sorted_files(order)
    /\ run_pc' = "load"
    /\ UNCHANGED <<phase, fileVars, serVars, extVars, tsvVars, scoreVars, statVars, loadVars>>
    /\ UNCHANGED <<summary, docs, run_no, clock, ended, stat_out, violin_out, first_run>>

\* line 666: the loop takes the next file
TakeFile ==
    /\ phase = "files"
    /\ run_pc = "load"
    /\ conv_state \in {"idle", "done"}
    /\ todo # <<>>
    /\ filename' = Head(todo)
    /\ content' = docs.files[Head(todo)]
    /\ todo' = Tail(todo)
    /\ conv_state' = "todo"
    /\ UNCHANGED <<phase, sermons, processed, skipped, conv_parsed, existing_files,
                   chk_done, chk_parsed>>
    /\ UNCHANGED <<serVars, extVars, tsvVars, scoreVars, statVars, loadVars>>
    /\ UNCHANGED <<summary, docs, run_pc, run_no, clock, ended, stat_out, violin_out,
                   first_run>>

\* main of the converter once load_all_sermons has returned or raised,
\* lines 809-820
ConverterEnd ==
    /\ phase = "files"
    /\ run_pc = "load"
    /\ conv_state = "raised" \/ (conv_state \in {"idle", "done"} /\ todo = <<>>)
    /\ IF conv_state = "raised"
       THEN /\ ended' = [ended EXCEPT !.converter = "raised"]
            /\ UNCHANGED <<summary, header, rows>>
       ELSE IF DOMAIN sermons = {}
       THEN /\ ended' = [ended EXCEPT !.converter = "nodata"]
            /\ UNCHANGED <<summary, header, rows>>
       ELSE \E names \in {sorted_files(order) : order \in Globs(docs)} :
            \E tsv \in {create_tsv(items_of(sermons, StoredFiles(names, docs.files), <<>>))} :
               /\ summary' = print_summary(sermons)
               /\ header' = tsv.header
               /\ rows' = tsv.rows
               /\ ended' = [ended EXCEPT !.converter =
                               IF tsv.k = "raise" THEN "raised" ELSE "written"]
    /\ run_pc' = "checker"
    /\ UNCHANGED <<phase, fileVars, serVars, extVars, scoreVars, statVars, loadVars>>
    /\ UNCHANGED <<tsv_sermons, all_columns, tsv_pc, tsv_seen>>
    /\ UNCHANGED <<docs, todo, run_no, clock, stat_out, violin_out, first_run>>

\* check_complete_cases
CheckerMain ==
    /\ phase = "files"
    /\ run_pc = "checker"
    /\ \E order \in (IF docs.exists THEN Globs(docs) ELSE {<<>>}) :
       \E ef \in {collect_existing(order, NoSermons)} :
          /\ existing_files' = ef
          /\ IF check_raises(ef, docs.files)
             THEN /\ ended' = [ended EXCEPT !.checker = "raised"]
                  /\ UNCHANGED <<problems, chk_checked>>
             ELSE /\ problems' = check_sermons(ef, docs.files)
                  /\ chk_checked' = TRUE
                  /\ ended' = [ended EXCEPT !.checker = "reported"]
    /\ run_pc' = "stats"
    /\ UNCHANGED <<phase, filename, content, sermons, processed, skipped, conv_state,
                   conv_parsed, chk_done, chk_parsed>>
    /\ UNCHANGED <<serVars, extVars, tsvVars, scoreVars, statVars>>
    /\ UNCHANGED <<stat_data, stat_pc, violin_data, violin_pc>>
    /\ UNCHANGED <<summary, docs, todo, run_no, clock, stat_out, violin_out, first_run>>

\* main of precompute_statistics.py
StatMain ==
    /\ phase = "files"
    /\ run_pc = "stats"
    /\ \E order \in (IF docs.exists THEN Globs(docs) ELSE {<<>>}) :
       \E loaded \in {load_all_files("stats", sorted_files(order), docs.files)} :
          IF loaded.k = "raise"
          THEN /\ ended' = [ended EXCEPT !.statistics = "raised"]
               /\ UNCHANGED <<stat_data, stat_out, docs>>
          ELSE IF loaded.a = <<>>
          THEN /\ ended' = [ended EXCEPT !.statistics = "nodata"]
               /\ UNCHANGED <<stat_data, stat_out, docs>>
          ELSE \E out \in {output_document("stats", loaded.a, clock + 1)} :
               /\ stat_data' = loaded.a
               /\ IF out.k = "raise"
                  THEN /\ ended' = [ended EXCEPT !.statistics = "raised"]
                       /\ UNCHANGED <<stat_out, docs>>
                  ELSE /\ ended' = [ended EXCEPT !.statistics = "written"]
                       /\ stat_out' = out.a
                       /\ docs' = WithOutput(docs, "stats")
    /\ clock' = clock + 1
    /\ run_pc' = "violin"
    /\ UNCHANGED <<phase, fileVars, serVars, extVars, tsvVars, scoreVars, statVars>>
    /\ UNCHANGED <<stat_pc, violin_data, violin_pc, problems, chk_checked>>
    /\ UNCHANGED <<summary, todo, run_no, violin_out, first_run>>

\* main of violin_data_precompute.py
ViolinMain ==
    /\ phase = "files"
    /\ run_pc = "violin"
    /\ \E order \in (IF docs.exists THEN Globs(docs) ELSE {<<>>}) :
       \E loaded \in {load_all_files("violin", sorted_files(order), docs.files)} :
          IF loaded.k = "raise"
          THEN /\ ended' = [ended EXCEPT !.distribution = "raised"]
               /\ UNCHANGED <<violin_data, violin_out, docs>>
          ELSE IF loaded.a = <<>>
          THEN /\ ended' = [ended EXCEPT !.distribution = "nodata"]
               /\ UNCHANGED <<violin_data, violin_out, docs>>
          ELSE \E out \in {output_document("violin", loaded.a, clock + 1)} :
               /\ violin_data' = loaded.a
               /\ IF out.k = "raise"
                  THEN /\ ended' = [ended EXCEPT !.distribution = "raised"]
                       /\ UNCHANGED <<violin_out, docs>>
                  ELSE /\ ended' = [ended EXCEPT !.distribution = "written"]
                       /\ violin_out' = out.a
                       /\ docs' = WithOutput(docs, "violin")
    /\ clock' = clock + 1
    /\ run_pc' = "end"
    /\ UNCHANGED <<phase, fileVars, serVars, extVars, tsvVars, scoreVars, statVars>>
    /\ UNCHANGED <<stat_data, stat_pc, violin_pc, problems, chk_checked>>
    /\ UNCHANGED <<summary, todo, run_no, stat_out, first_run>>

\* the pipeline is run once more over the directory as the first run left it
RunAgain ==
    /\ phase = "files"
    /\ run_pc = "end"
    /\ run_no = 1
    /\ first_run' = [header |-> header, rows |-> rows, statistics |-> stat_out,
                     distribution |-> violin_out, problems |-> problems,
                     sermons |-> sermons, ended |-> ended]
    /\ run_no' = 2
    /\ run_pc' = "glob"
    /\ filename' = <<>>
    /\ content' = Loaded(EmptyDict)
    /\ sermons' = NoSermons
    /\ processed' = 0
    /\ skipped' = 0
    /\ conv_state' = "idle"
    /\ conv_parsed' = None
    /\ existing_files' = NoSermons
    /\ header' = <<>>
    /\ rows' = <<>>
    /\ stat_data' = <<>>
    /\ violin_data' = <<>>
    /\ problems' = <<>>
    /\ chk_checked' = FALSE
    /\ summary' = NotPrinted
    /\ ended' = NotEnded
    /\ stat_out' = NotWritten
    /\ violin_out' = NotWritten
    /\ UNCHANGED <<phase, chk_done, chk_parsed, serVars, extVars, scoreVars, statVars>>
    /\ UNCHANGED <<tsv_sermons, all_columns, tsv_pc, tsv_seen, stat_pc, violin_pc>>
    /\ UNCHANGED <<docs, todo, clock>>

\* the most files of the docs directory before the first run
MaxFiles == 2

\* names the programs parse: a plain one, one of a repeat run, one of an
\* unknown type and one with ".json" inside, which the converter and the
\* checker take for a_01_kolb.json
ParsedNames ==
    << <<"a","_","0","1","_">> \o kolb \o DOT_JSON,
       <<"a","_","0","1","_","B","_">> \o kolb \o DOT_JSON,
       <<"b","_","0","1","_","x">> \o DOT_JSON,
       <<"a">> \o DOT_JSON \o <<"_","0","1","_">> \o kolb \o DOT_JSON >>

\* names the programs reject, whatever the files hold
RejectedNames == { <<"a","_">> \o kolb \o DOT_JSON, STATISTICS \o DOT_JSON }

\* what the i-th of ParsedNames may hold: an object of its own, that object
\* in an array, a number, something json.load or open fails on, or bytes
\* that are no UTF-8
ContentsOf(i) ==
    { Loaded(LoadObjects[i]), Loaded(JList(<<LoadObjects[i]>>)), Loaded(JInt(1)),
      Unreadable, Undecodable }

\* the files a directory may hold
RunFiles ==
    {f \in UNION {[names -> UNION {ContentsOf(i) : i \in 1..Len(ParsedNames)}
                            \cup {Loaded(EmptyDict)}] :
                    names \in {some \in SUBSET (Range(ParsedNames) \cup RejectedNames) :
                                  Cardinality(some) <= MaxFiles}} :
        \A n \in DOMAIN f :
            \/ n \in RejectedNames /\ f[n] = Loaded(EmptyDict)
            \/ \E i \in 1..Len(ParsedNames) : n = ParsedNames[i] /\ f[n] \in ContentsOf(i)}

\* the docs directory: missing, or holding MaxFiles files at most
RunDirectories ==
    {[exists |-> FALSE, files |-> <<>>]} \cup {[exists |-> TRUE, files |-> f] : f \in RunFiles}

InitRun ==
    /\ phase = "files"
    /\ filename = <<>>
    /\ content = Loaded(EmptyDict)
    /\ sermons = NoSermons
    /\ processed = 0
    /\ skipped = 0
    /\ conv_state = "idle"
    /\ conv_parsed = None
    /\ existing_files = NoSermons
    /\ chk_done = FALSE
    /\ chk_parsed = None
    /\ SerIdle
    /\ ExtIdle
    /\ TsvIdle
    /\ ScoreIdle
    /\ StatIdle
    /\ LoadIdle
    /\ summary = NotPrinted
    /\ docs \in RunDirectories
    /\ todo = <<>>
    /\ run_pc = "glob"
    /\ run_no = 1
    /\ clock = 0
    /\ ended = NotEnded
    /\ stat_out = NotWritten
    /\ violin_out = NotWritten
    /\ first_run = NotWritten

NextRun ==
    \/ Glob
    \/ TakeFile
    \/ LoadFile
    \/ ConverterEnd
    \/ CheckerMain
    \/ StatMain
    \/ ViolinMain
    \/ RunAgain

SpecRun == InitRun /\ [][NextRun]_vars

---------------------------------------------------------------------------
(* Claims about the programs run as wholes. *)

\* the files DOCS_DIR.glob("*.json") gives
Enumerated ==
    IF docs.exists THEN {n \in DOMAIN docs.files : EndsWith(n, DOT_JSON)} ELSE {}

\* load_all_sermons is between two files, or through with them
BetweenFiles == run_pc = "load" /\ conv_state \in {"idle", "done"}

\* the file in hand is one load_all_sermons does not store a record of: its
\* name is not parsed, or it cannot be read or decoded as JSON, or it holds
\* neither an object nor an array that starts with one
NothingToStore ==
    \/ parse_filename(filename) = None
    \/ content.kind = "error"
    \/ content.kind = "json" /\ ~IsDict(first_or_self(content.value))

\* C23 as stated: no file ends load_all_sermons with an exception, and
\* between two files and at its end every file enumerated is counted as
\* processed or as skipped, or is still to come
C23_Original ==
    run_pc = "load" =>
        /\ conv_state # "raised"
        /\ BetweenFiles => processed + skipped + Len(todo) = Cardinality(Enumerated)

\* unless a file has raised, every file enumerated is counted as processed or
\* as skipped, or is still to come
EveryFileCounted ==
    BetweenFiles => processed + skipped + Len(todo) = Cardinality(Enumerated)

\* a file with a name that is not parsed, with malformed JSON, that cannot
\* be read, or with JSON of another structure adds one to skipped and leaves
\* the sermons and processed as they are
SkippedFileKeepsCases ==
    [][(run_pc = "load" /\ conv_state = "todo" /\ NothingToStore)
          => (conv_state' = "done" /\ skipped' = skipped + 1
              /\ sermons' = sermons /\ processed' = processed)]_vars

\* a file has been skipped after one was stored, and one is still to come
SkippedBetweenFiles ==
    /\ BetweenFiles
    /\ processed = 1
    /\ skipped = 1
    /\ NothingToStore
    /\ todo # <<>>

\* a file that is no UTF-8 has ended load_all_sermons with a file to come
RaisedBeforeLastFile ==
    /\ run_pc = "load"
    /\ conv_state = "raised"
    /\ content = Undecodable
    /\ todo # <<>>

\* the three programs that write an output
Producers == {"converter", "statistics", "distribution"}

\* the name under which an aggregator parses and loads
ModuleOf(producer) == IF producer = "statistics" THEN "stats" ELSE "violin"

\* the producer stores a record of the file: the converter of an object or
\* of an array that starts with one, an aggregator of an object
Loadable(producer, name) ==
    IF producer = "converter"
    THEN /\ parse_filename(name) # None
         /\ docs.files[name].kind = "json"
         /\ IsDict(first_or_self(docs.files[name].value))
    ELSE load_all_data(module_parse_filename(ModuleOf(producer), name),
                       docs.files[name]) # <<>>

\* no record can be loaded: the directory is missing or empty, or no file of
\* it has a name that is parsed and a content that loads
NoRecord(producer) == \A name \in Enumerated : ~Loadable(producer, name)

\* the producer has not written its output
Unwritten(producer) ==
    /\ ended[producer] # "written"
    /\ producer = "converter" => (header = <<>> /\ rows = <<>>)
    /\ producer = "statistics" => stat_out = NotWritten
    /\ producer = "distribution" => violin_out = NotWritten

\* a file of the directory that the producer opens (its name is parsed) is
\* no UTF-8
OpensUndecodable(producer) ==
    \E name \in Enumerated :
        /\ docs.files[name].kind = "undecodable"
        /\ IF producer = "converter" THEN parse_filename(name) # None
           ELSE module_parse_filename(ModuleOf(producer), name) # None

\* C21 as stated: a producer that can load no record, once it has ended, has
\* ended with the 'no data' outcome and has not written its output
C21_Original ==
    \A producer \in Producers :
        (NoRecord(producer) /\ ended[producer] # "running")
            => (ended[producer] = "nodata" /\ Unwritten(producer))

\* a producer that can load no record never writes its output
NoRecordNothingWritten ==
    \A producer \in Producers : NoRecord(producer) => Unwritten(producer)

\* a producer that can load no record and opens no file that is no UTF-8
\* ends with the 'no data' outcome
NoRecordNoData ==
    \A producer \in Producers :
        (NoRecord(producer) /\ ~OpensUndecodable(producer))
            => ended[producer] \in {"running", "nodata"}

\* the three producers have ended with 'no data' over a directory that holds
\* files, none of which loads
NoDataOfFiles ==
    /\ Cardinality(Enumerated) = MaxFiles
    /\ \A producer \in Producers : ended[producer] = "nodata"

\* a producer has ended with an exception where no record can be loaded
RaisedWithoutRecord ==
    \E producer \in Producers : NoRecord(producer) /\ ended[producer] = "raised"

\* a document of an aggregator without the time it was generated at
Undated(doc) == IF doc = NotWritten THEN doc ELSE [doc EXCEPT !.generated_at = 0]

\* the second run over the directory has ended
SecondRunEnded == run_no = 2 /\ run_pc = "end"

\* C22 as stated: the second of two runs over the same directory writes the
\* TSV, the statistics document and the distribution document of the first
C22_Original ==
    SecondRunEnded =>
        /\ header = first_run.header
        /\ rows = first_run.rows
        /\ stat_out = first_run.statistics
        /\ violin_out = first_run.distribution

\* C22: the second of two runs over the same directory writes the TSV of the
\* first, and the statistics and the distribution document of the first but
\* for their generated_at; each program ends as it did in the first run
C22_Amended ==
    SecondRunEnded =>
        /\ header = first_run.header
        /\ rows = first_run.rows
        /\ Undated(stat_out) = Undated(first_run.statistics)
        /\ Undated(violin_out) = Undated(first_run.distribution)
        /\ ended = first_run.ended

\* two runs have written the three outputs from two files of one case; the
\* documents hold metrics and differ in generated_at only
C22_Witness ==
    /\ SecondRunEnded
    /\ processed = 2
    /\ Len(rows) = 1
    /\ stat_out # NotWritten
    /\ violin_out # NotWritten
    /\ DOMAIN stat_out.detailed # {}
    /\ DOMAIN violin_out.detailed # {}
    /\ stat_out.generated_at # first_run.statistics.generated_at
    /\ violin_out.generated_at # first_run.distribution.generated_at

\* both aggregators have written their document in this run
BothWritten == stat_out # NotWritten /\ violin_out # NotWritten

\* the two aggregates hold the same (metric_key, theologian) pairs, with the
\* same count and the same mean
Agree(stats, violin) ==
    /\ DOMAIN stats = DOMAIN violin
    /\ \A key \in DOMAIN stats \cap DOMAIN violin :
          /\ stats[key].count = violin[key].count
          /\ stats[key].mean = violin[key].summary.mean

\* C28 as stated: over whatever filenames, the statistics and the
\* distribution document hold the same (metric_key, subject) pairs with the
\* same count and mean, at both levels of detail (the files of the model
\* score kolb, one of the five domains both aggregators score)
C28_Original ==
    BothWritten =>
        /\ Agree(stat_out.summary, violin_out.summary)
        /\ Agree(stat_out.detailed, violin_out.detailed)

\* the two aggregators parse every name of the directory alike
ParsedAlike ==
    \A name \in Enumerated : stat_parse_filename(name) = violin_parse_filename(name)

\* where the two aggregators parse every name alike, their documents agree
AgreeWhenParsedAlike ==
    (BothWritten /\ ParsedAlike) =>
        /\ Agree(stat_out.summary, violin_out.summary)
        /\ Agree(stat_out.detailed, violin_out.detailed)

\* the documents agree on a metric that both hold
AgreeingDocuments ==
    /\ BothWritten
    /\ ParsedAlike
    /\ DOMAIN stat_out.detailed # {}
    /\ DOMAIN stat_out.detailed = DOMAIN violin_out.detailed

\* a file of a repeat run is scored by the distribution aggregator and by
\* the statistics aggregator not at all
RepeatRunScoredByOne ==
    /\ BothWritten
    /\ DOMAIN stat_out.detailed = {}
    /\ DOMAIN violin_out.detailed # {}

\* the cases of which the directory holds a file of a known domain, as the
\* checker parses the names
CheckedCases ==
    {<<p[1], p[2]>> : p \in {q \in {chk_parse_filename(name) : name \in Enumerated} :
                                q # None /\ q[3] \in Range(ANALYSIS_TYPES)}}

\* the directory holds a file of the case and the domain
HasFile(key, domain) ==
    \E name \in Enumerated : chk_parse_filename(name) = <<key[1], key[2], domain>>

\* the issues the report holds for the case and the domain
IssuesOf(key, domain) ==
    SelectSeq(problems, LAMBDA p : /\ p.theologian = key[1]
                                   /\ p.sermon_id = key[2]
                                   /\ p.domain = domain)

\* the names of the critical fields of a domain
CriticalFields(domain) ==
    {SCORE_FIELDS(domain)[i][2] : i \in 1..Len(SCORE_FIELDS(domain))}

\* the issues are missing_field issues of critical fields of the domain, one
\* per field at most
MissingFieldsOnly(issues, domain) ==
    /\ \A i \in 1..Len(issues) :
          /\ issues[i].issue_type = "missing_field"
          /\ issues[i].field \in CriticalFields(domain)
    /\ \A i, j \in 1..Len(issues) : i # j => issues[i].field # issues[j].field

\* C30: in a report of the checker, every issue is of a case with a file of
\* a known domain; for such a case and every domain, if the domain has no
\* file the report holds one issue, a missing_file, and if it has a file the
\* report holds either one issue, a read_error, or missing_field issues
\* only, one per critical field at most
C30_Theorem ==
    ended.checker = "reported" =>
        /\ \A i \in 1..Len(problems) :
              /\ <<problems[i].theologian, problems[i].sermon_id>> \in CheckedCases
              /\ problems[i].domain \in Range(ANALYSIS_TYPES)
        /\ \A key \in CheckedCases : \A domain \in Range(ANALYSIS_TYPES) :
              IF ~HasFile(key, domain)
              THEN /\ Len(IssuesOf(key, domain)) = 1
                   /\ IssuesOf(key, domain)[1].issue_type = "missing_file"
              ELSE \/ /\ Len(IssuesOf(key, domain)) = 1
                      /\ IssuesOf(key, domain)[1].issue_type = "read_error"
                   \/ MissingFieldsOnly(IssuesOf(key, domain), domain)

\* a report over a file of kolb with several critical fields missing and a
\* file of an unknown domain that is the only one of its case: the report
\* holds the missing_field issues and the missing_file issues of the first
\* case and nothing of the second
C30_Witness ==
    /\ ended.checker = "reported"
    /\ ParsedNames[1] \in Enumerated
    /\ ParsedNames[3] \in Enumerated
    /\ Len(IssuesOf(<<<<"a">>, <<"0", "1">>>>, kolb)) > 1
    /\ Len(problems) = Len(IssuesOf(<<<<"a">>, <<"0", "1">>>>, kolb))
                       + Len(ANALYSIS_TYPES) - 1

\* a report with a read_error for a file that is there
ReadErrorReported ==
    /\ ended.checker = "reported"
    /\ \E i \in 1..Len(problems) : problems[i].issue_type = "read_error"

\* a report over a file that is not found under the name put together from
\* its case and domain: the domain has a file and no issue
FileNotFoundAgain ==
    /\ ended.checker = "reported"
    /\ \E key \in CheckedCases :
          /\ HasFile(key, kolb)
          /\ key[1] \o US \o key[2] \o US \o kolb \o DOT_JSON \notin Enumerated
          /\ IssuesOf(key, kolb) = <<>>

===========================================================================
